---- MODULE Spec2Model ----
(***************************************************************************)
(* Core War MARS virtual machine (src/corewar/mars.py) as a state machine. *)
(* The state is the MARS object: core, ownership, warriors, warrior_order, *)
(* current_warrior_idx, cycle, running and the constructor parameters.     *)
(* Actions are the public operations load_warrior, step and run, the last  *)
(* one split at its loop head so that its termination can be stated.       *)
(*                                                                         *)
(* Around the machine: the Battle object of src/corewar/battle.py (its     *)
(* position generator, run and run_tournament, each a call frame stepped   *)
(* at its loops) and the MAPElites object of src/evolution/map_elites.py.  *)
(***************************************************************************)
EXTENDS Integers, Sequences, FiniteSets, TLC

(***************************************************************************)
(* Bounds of the model.  The source defaults (8000 cells, 80000 cycles,    *)
(* 8000 processes, 100 instructions) are scaled down.                      *)
(***************************************************************************)
CoreSize == 4

MaxCycles == 6

MaxProcBound == 2

MaxLength == 2

\* _generate_positions gives up after max_attempts = 1000 samples
MaxAttempts == 3

\* Battle.min_distance ranges over 0 .. MaxMinDistance (default 100)
MaxMinDistance == 1

\* Battle.num_rounds and rounds_per_match range over 1 .. MaxRounds
MaxRounds == 2

\* at most MaxEvaluations calls of _try_add and MaxGenerations of step
MaxEvaluations == 3

MaxGenerations == 2

VARIABLES
    core,                \* MARS.core: address -> Instruction
    ownership,           \* MARS.ownership: address -> warrior id or -1
    warriors,            \* MARS.warriors: warrior id -> WarriorState
    warrior_order,       \* MARS.warrior_order
    current_warrior_idx, \* MARS.current_warrior_idx (0-based)
    cycle,               \* MARS.cycle
    running,             \* MARS.running
    max_processes,       \* MARS.max_processes, fixed at construction
    run_pc,              \* position of a run() call: "idle", "loop", "done"
    run_result,          \* value returned by run(): a warrior id or None
    hung,                \* TRUE once the while-loop of step() cannot exit
    dequeued,            \* history: id -> number of popleft() calls
    exec_log,            \* history: per turn, who ran, who was alive, what ran
    last                 \* history: record of the last _execute_one call

mars_vars == <<core, ownership, warriors, warrior_order, current_warrior_idx,
               cycle, running, max_processes, run_pc, run_result, hung,
               dequeued, exec_log, last>>

VARIABLES
    gen,                 \* frame of a Battle._generate_positions call
    battle,              \* the Battle object and the frame of Battle.run
    tour,                \* frame of a Battle.run_tournament call
    elites               \* the MAPElites object and the frame of its calls

VARIABLES
    desc,                \* frame of a BehaviorDescriptor.get_cell_index call
    fit,                 \* the FitnessEvaluator and the frame of evaluate
    drq,                 \* the DigitalRedQueen object and the frame of run
    llm                  \* the WarriorGenerator and the frame of its calls

app_vars == <<desc, fit, drq, llm>>

vars == <<mars_vars, gen, battle, tour, elites, app_vars>>

None == -1

(***************************************************************************)
(* redcode.py: Instruction and the enumerations.                           *)
(***************************************************************************)
OpCode == {"DAT", "MOV", "ADD", "SUB", "MUL", "DIV", "MOD", "JMP", "JMZ",
           "JMN", "DJN", "SPL", "CMP", "SEQ", "SNE", "SLT", "LDP", "STP",
           "NOP"}

Modifier == {"A", "B", "AB", "BA", "F", "X", "I"}

AddressMode == {"IMMEDIATE", "DIRECT", "A_INDIRECT", "B_INDIRECT",
                "A_PREDEC", "B_PREDEC", "A_POSTINC", "B_POSTINC"}

Instruction(op, m, am, av, bm, bv) ==
    [opcode |-> op, modifier |-> m, a_mode |-> am, a_value |-> av,
     b_mode |-> bm, b_value |-> bv]

\* Instruction(): the default cell DAT.F $0, $0
DefaultInstruction == Instruction("DAT", "F", "DIRECT", 0, "DIRECT", 0)

Warrior(instrs, off) == [instructions |-> instrs, start_offset |-> off]

WarriorState(start_pc) ==
    [processes |-> <<start_pc>>, is_alive |-> TRUE, memory_accessed |-> {},
     threads_spawned |-> 0, instructions_executed |-> 0, memory_writes |-> 0]

(***************************************************************************)
(* Python integer division and remainder (floor semantics, any sign of the *)
(* divisor); the divisor is never 0 where these are used.                  *)
(***************************************************************************)
PyFloorDiv(a, b) == IF b > 0 THEN a \div b ELSE (-a) \div (-b)

PyMod(a, b) == IF b > 0 THEN a % b ELSE -((-a) % (-b))

(***************************************************************************)
(* Memory access.  A machine value m is the triple of the fields that an   *)
(* instruction can change: [core, ownership, warriors].                    *)
(***************************************************************************)
_normalize(address) == address % CoreSize

_read(m, address) == m.core[_normalize(address)]

\* Mutant of _write: the write is not counted in memory_writes.
_write_uncounted(m, address, instruction, warrior_id) ==
    LET addr == _normalize(address)
    IN  [core |-> [m.core EXCEPT ![addr] = instruction],
         ownership |-> [m.ownership EXCEPT ![addr] = warrior_id],
         warriors |->
            IF warrior_id \in DOMAIN m.warriors
            THEN [m.warriors EXCEPT
                    ![warrior_id].memory_accessed = @ \cup {addr}]
            ELSE m.warriors]

_write(m, address, instruction, warrior_id) ==
    LET addr == _normalize(address)
    IN  [core |-> [m.core EXCEPT ![addr] = instruction],
         ownership |-> [m.ownership EXCEPT ![addr] = warrior_id],
         warriors |->
            IF warrior_id \in DOMAIN m.warriors
            THEN [m.warriors EXCEPT
                    ![warrior_id].memory_writes = @ + 1,
                    ![warrior_id].memory_accessed = @ \cup {addr}]
            ELSE m.warriors]

(***************************************************************************)
(* _resolve_address: returns the machine after the side effect, the        *)
(* pointer and the value.                                                  *)
(***************************************************************************)
\* Mutant of _indirect_ptr: the sum is not normalized.
_indirect_ptr_raw(base_addr, field_value) == base_addr + field_value

\* self._normalize(base_addr + target.a_value) and its B-field twin
_indirect_ptr(base_addr, field_value) == _normalize(base_addr + field_value)

\* Mutant of _resolve_address: post-increment derives the pointer from the
\* incremented field.
_resolve_address_postinc_first(m, base_pc, mode, value, warrior_id) ==
    LET base_addr == _normalize(base_pc + value)
        target == _read(m, base_addr)
        decA == [target EXCEPT !.a_value = (target.a_value - 1) % CoreSize]
        decB == [target EXCEPT !.b_value = (target.b_value - 1) % CoreSize]
        incA == [target EXCEPT !.a_value = (target.a_value + 1) % CoreSize]
        incB == [target EXCEPT !.b_value = (target.b_value + 1) % CoreSize]
    IN  CASE mode = "IMMEDIATE" ->
               [m |-> m, ptr |-> base_pc, val |-> value]
          [] mode = "DIRECT" ->
               [m |-> m, ptr |-> base_addr, val |-> value]
          [] mode = "A_INDIRECT" ->
               [m |-> m, ptr |-> _indirect_ptr(base_addr, target.a_value),
                val |-> target.a_value]
          [] mode = "B_INDIRECT" ->
               [m |-> m, ptr |-> _indirect_ptr(base_addr, target.b_value),
                val |-> target.b_value]
          [] mode = "A_PREDEC" ->
               [m |-> _write(m, base_addr, decA, warrior_id),
                ptr |-> _indirect_ptr(base_addr, decA.a_value),
                val |-> decA.a_value]
          [] mode = "B_PREDEC" ->
               [m |-> _write(m, base_addr, decB, warrior_id),
                ptr |-> _indirect_ptr(base_addr, decB.b_value),
                val |-> decB.b_value]
          [] mode = "A_POSTINC" ->
               [m |-> _write(m, base_addr, incA, warrior_id),
                ptr |-> _indirect_ptr(base_addr, incA.a_value),
                val |-> incA.a_value]
          [] mode = "B_POSTINC" ->
               [m |-> _write(m, base_addr, incB, warrior_id),
                ptr |-> _indirect_ptr(base_addr, incB.b_value),
                val |-> incB.b_value]
          [] OTHER ->
               [m |-> m, ptr |-> base_addr, val |-> value]

_resolve_address(m, base_pc, mode, value, warrior_id) ==
    LET base_addr == _normalize(base_pc + value)
        target == _read(m, base_addr)
        decA == [target EXCEPT !.a_value = (target.a_value - 1) % CoreSize]
        decB == [target EXCEPT !.b_value = (target.b_value - 1) % CoreSize]
        incA == [target EXCEPT !.a_value = (target.a_value + 1) % CoreSize]
        incB == [target EXCEPT !.b_value = (target.b_value + 1) % CoreSize]
    IN  CASE mode = "IMMEDIATE" ->
               [m |-> m, ptr |-> base_pc, val |-> value]
          [] mode = "DIRECT" ->
               [m |-> m, ptr |-> base_addr, val |-> value]
          [] mode = "A_INDIRECT" ->
               [m |-> m, ptr |-> _indirect_ptr(base_addr, target.a_value),
                val |-> target.a_value]
          [] mode = "B_INDIRECT" ->
               [m |-> m, ptr |-> _indirect_ptr(base_addr, target.b_value),
                val |-> target.b_value]
          [] mode = "A_PREDEC" ->
               [m |-> _write(m, base_addr, decA, warrior_id),
                ptr |-> _indirect_ptr(base_addr, decA.a_value),
                val |-> decA.a_value]
          [] mode = "B_PREDEC" ->
               [m |-> _write(m, base_addr, decB, warrior_id),
                ptr |-> _indirect_ptr(base_addr, decB.b_value),
                val |-> decB.b_value]
          [] mode = "A_POSTINC" ->
               [m |-> _write(m, base_addr, incA, warrior_id),
                ptr |-> _indirect_ptr(base_addr, target.a_value),
                val |-> target.a_value]
          [] mode = "B_POSTINC" ->
               [m |-> _write(m, base_addr, incB, warrior_id),
                ptr |-> _indirect_ptr(base_addr, target.b_value),
                val |-> target.b_value]
          [] OTHER ->
               [m |-> m, ptr |-> base_addr, val |-> value]

(***************************************************************************)
(* The field arithmetic of ADD, SUB, MUL (reduced modulo the core size)    *)
(* and of DIV, MOD (Python's // and %, not reduced), and the modifier      *)
(* projection the five opcodes share: the destination copy with the        *)
(* selected fields replaced by (destination op source).                    *)
(***************************************************************************)
_field_op(op, x, y) ==
    CASE op = "ADD" -> (x + y) % CoreSize
      [] op = "SUB" -> (x - y) % CoreSize
      [] op = "MUL" -> (x * y) % CoreSize
      [] op = "DIV" -> PyFloorDiv(x, y)
      [] op = "MOD" -> PyMod(x, y)

_arith(op, modifier, src, dst) ==
    CASE modifier = "A" ->
           [dst EXCEPT !.a_value = _field_op(op, dst.a_value, src.a_value)]
      [] modifier = "B" ->
           [dst EXCEPT !.b_value = _field_op(op, dst.b_value, src.b_value)]
      [] modifier = "AB" ->
           [dst EXCEPT !.b_value = _field_op(op, dst.b_value, src.a_value)]
      [] modifier = "BA" ->
           [dst EXCEPT !.a_value = _field_op(op, dst.a_value, src.b_value)]
      [] modifier \in {"F", "I"} ->
           [dst EXCEPT !.a_value = _field_op(op, dst.a_value, src.a_value),
                       !.b_value = _field_op(op, dst.b_value, src.b_value)]
      [] modifier = "X" ->
           [dst EXCEPT !.a_value = _field_op(op, dst.a_value, src.b_value),
                       !.b_value = _field_op(op, dst.b_value, src.a_value)]
      [] OTHER -> dst

\* Mutant of _execute_mov: the whole source is copied under every modifier.
_execute_mov_whole(m, modifier, src, dst, a_addr, b_addr, warrior_id) ==
    _write(m, b_addr, src, warrior_id)

_execute_mov(m, modifier, src, dst, a_addr, b_addr, warrior_id) ==
    LET new_dst ==
          CASE modifier = "A" -> [dst EXCEPT !.a_value = src.a_value]
            [] modifier = "B" -> [dst EXCEPT !.b_value = src.b_value]
            [] modifier = "AB" -> [dst EXCEPT !.b_value = src.a_value]
            [] modifier = "BA" -> [dst EXCEPT !.a_value = src.b_value]
            [] modifier = "F" -> [dst EXCEPT !.a_value = src.a_value,
                                             !.b_value = src.b_value]
            [] modifier = "X" -> [dst EXCEPT !.a_value = src.b_value,
                                             !.b_value = src.a_value]
            [] modifier = "I" -> src
            [] OTHER -> dst
    IN  _write(m, b_addr, new_dst, warrior_id)

_execute_add(m, modifier, src, dst, b_addr, warrior_id) ==
    _write(m, b_addr, _arith("ADD", modifier, src, dst), warrior_id)

_execute_sub(m, modifier, src, dst, b_addr, warrior_id) ==
    _write(m, b_addr, _arith("SUB", modifier, src, dst), warrior_id)

_execute_mul(m, modifier, src, dst, b_addr, warrior_id) ==
    _write(m, b_addr, _arith("MUL", modifier, src, dst), warrior_id)

(***************************************************************************)
(* DIV and MOD: [ok, m].  ok = FALSE is the early `return False` taken     *)
(* before the write when a selected source field is 0.                     *)
(***************************************************************************)
_divides(modifier, src) ==
    CASE modifier \in {"A", "AB"} -> src.a_value # 0
      [] modifier \in {"B", "BA"} -> src.b_value # 0
      [] modifier \in {"F", "I", "X"} -> src.a_value # 0 /\ src.b_value # 0
      [] OTHER -> TRUE

\* Mutant of _execute_div: the destination is written back before the
\* divisor is tested.
_execute_div_writes_first(m, modifier, src, dst, b_addr, warrior_id) ==
    IF ~_divides(modifier, src)
    THEN [ok |-> FALSE, m |-> _write(m, b_addr, dst, warrior_id)]
    ELSE [ok |-> TRUE,
          m |-> _write(m, b_addr, _arith("DIV", modifier, src, dst),
                       warrior_id)]

_execute_div(m, modifier, src, dst, b_addr, warrior_id) ==
    IF ~_divides(modifier, src)
    THEN [ok |-> FALSE, m |-> m]
    ELSE [ok |-> TRUE,
          m |-> _write(m, b_addr, _arith("DIV", modifier, src, dst),
                       warrior_id)]

_execute_mod(m, modifier, src, dst, b_addr, warrior_id) ==
    IF ~_divides(modifier, src)
    THEN [ok |-> FALSE, m |-> m]
    ELSE [ok |-> TRUE,
          m |-> _write(m, b_addr, _arith("MOD", modifier, src, dst),
                       warrior_id)]

_is_zero(modifier, instr) ==
    IF modifier \in {"A", "BA"} THEN instr.a_value = 0
    ELSE IF modifier \in {"B", "AB"} THEN instr.b_value = 0
    ELSE instr.a_value = 0 /\ instr.b_value = 0

_compare_equal(modifier, src, dst) ==
    CASE modifier = "A" -> src.a_value = dst.a_value
      [] modifier = "B" -> src.b_value = dst.b_value
      [] modifier = "AB" -> src.a_value = dst.b_value
      [] modifier = "BA" -> src.b_value = dst.a_value
      [] modifier = "F" -> src.a_value = dst.a_value /\ src.b_value = dst.b_value
      [] modifier = "X" -> src.a_value = dst.b_value /\ src.b_value = dst.a_value
      [] modifier = "I" -> src = dst
      [] OTHER -> FALSE

_compare_less_than(modifier, src, dst) ==
    CASE modifier = "A" -> src.a_value < dst.a_value
      [] modifier = "B" -> src.b_value < dst.b_value
      [] modifier = "AB" -> src.a_value < dst.b_value
      [] modifier = "BA" -> src.b_value < dst.a_value
      [] OTHER -> src.a_value < dst.a_value /\ src.b_value < dst.b_value

\* Mutant of _djn_dec: both fields are decremented under every modifier.
_djn_dec_both(modifier, dst) ==
    [dst EXCEPT !.a_value = (dst.a_value - 1) % CoreSize,
                !.b_value = (dst.b_value - 1) % CoreSize]

\* The DJN branch of _execute_one: the decremented destination copy.
_djn_dec(modifier, dst) ==
    IF modifier \in {"A", "BA"}
    THEN [dst EXCEPT !.a_value = (dst.a_value - 1) % CoreSize]
    ELSE IF modifier \in {"B", "AB"}
    THEN [dst EXCEPT !.b_value = (dst.b_value - 1) % CoreSize]
    ELSE [dst EXCEPT !.a_value = (dst.a_value - 1) % CoreSize,
                     !.b_value = (dst.b_value - 1) % CoreSize]

(***************************************************************************)
(* _execute_one for the warrior warrior_id of machine m0.  The result      *)
(* holds the machine after the instruction and what the instruction saw:   *)
(* the dequeued pc, the fetched instruction, both pointers, the snapshots  *)
(* src and dst, and the machine as it was after operand resolution.        *)
(*                                                                         *)
(* `instr` in the source is the core cell object itself, so a pre-decrement*)
(* or post-increment of the A-operand that lands on the cell at pc changes *)
(* the fields of `instr` before the B-operand is resolved: the B-operand   *)
(* is resolved with the fields the cell at pc has after the A-resolution.  *)
(***************************************************************************)
\* Mutant of _enqueue: the pcs are appended to the queue of every warrior.
_enqueue_everyone(m, warrior_id, pcs) ==
    [m EXCEPT !.warriors =
        [w \in DOMAIN m.warriors |->
            [m.warriors[w] EXCEPT !.processes = @ \o pcs]]]

\* warrior_state.processes.append(pc), for each pc of pcs
_enqueue(m, warrior_id, pcs) ==
    [m EXCEPT !.warriors[warrior_id].processes = @ \o pcs]

\* Mutant of _spl: the split is never refused.
_spl_uncapped(m, warrior_id, a_addr, next_pc, maxp) ==
    _enqueue([m EXCEPT !.warriors[warrior_id].threads_spawned = @ + 1],
             warrior_id, <<a_addr, next_pc>>)

\* Mutant of _spl: the cap is tested against max_processes, not one less.
_spl_off_by_one(m, warrior_id, a_addr, next_pc, maxp) ==
    IF Len(m.warriors[warrior_id].processes) < maxp
    THEN _enqueue([m EXCEPT !.warriors[warrior_id].threads_spawned = @ + 1],
                  warrior_id, <<a_addr, next_pc>>)
    ELSE _enqueue(m, warrior_id, <<next_pc>>)

\* The SPL branch of _execute_one.
_spl(m, warrior_id, a_addr, next_pc, maxp) ==
    IF Len(m.warriors[warrior_id].processes) < maxp - 1
    THEN _enqueue([m EXCEPT !.warriors[warrior_id].threads_spawned = @ + 1],
                  warrior_id, <<a_addr, next_pc>>)
    ELSE _enqueue(m, warrior_id, <<next_pc>>)

\* Mutant of _dat: the process is put back like after any other instruction.
_dat_requeues(m, warrior_id, next_pc) == _enqueue(m, warrior_id, <<next_pc>>)

\* The DAT branch of _execute_one: `pass`, next_pc is not added back.
_dat(m, warrior_id, next_pc) == m

_dispatch(m, instr, src, dst, a_addr, b_addr, next_pc, warrior_id, maxp) ==
    LET op == instr.opcode
        md == instr.modifier
        skip == _normalize(next_pc + 1)
        div == _execute_div(m, md, src, dst, b_addr, warrior_id)
        mod == _execute_mod(m, md, src, dst, b_addr, warrior_id)
        new_dst == _djn_dec(md, dst)
    IN  CASE op = "DAT" -> _dat(m, warrior_id, next_pc)
          [] op = "MOV" ->
               _enqueue(_execute_mov(m, md, src, dst, a_addr, b_addr, warrior_id),
                        warrior_id, <<next_pc>>)
          [] op = "ADD" ->
               _enqueue(_execute_add(m, md, src, dst, b_addr, warrior_id),
                        warrior_id, <<next_pc>>)
          [] op = "SUB" ->
               _enqueue(_execute_sub(m, md, src, dst, b_addr, warrior_id),
                        warrior_id, <<next_pc>>)
          [] op = "MUL" ->
               _enqueue(_execute_mul(m, md, src, dst, b_addr, warrior_id),
                        warrior_id, <<next_pc>>)
          [] op = "DIV" ->
               IF ~div.ok THEN div.m
               ELSE _enqueue(div.m, warrior_id, <<next_pc>>)
          [] op = "MOD" ->
               IF ~mod.ok THEN mod.m
               ELSE _enqueue(mod.m, warrior_id, <<next_pc>>)
          [] op = "JMP" -> _enqueue(m, warrior_id, <<a_addr>>)
          [] op = "JMZ" ->
               _enqueue(m, warrior_id,
                        IF _is_zero(md, dst) THEN <<a_addr>> ELSE <<next_pc>>)
          [] op = "JMN" ->
               _enqueue(m, warrior_id,
                        IF ~_is_zero(md, dst) THEN <<a_addr>> ELSE <<next_pc>>)
          [] op = "DJN" ->
               _enqueue(_write(m, b_addr, new_dst, warrior_id), warrior_id,
                        IF ~_is_zero(md, new_dst) THEN <<a_addr>>
                        ELSE <<next_pc>>)
          [] op = "SPL" -> _spl(m, warrior_id, a_addr, next_pc, maxp)
          [] op \in {"CMP", "SEQ"} ->
               _enqueue(m, warrior_id,
                        IF _compare_equal(md, src, dst) THEN <<skip>>
                        ELSE <<next_pc>>)
          [] op = "SNE" ->
               _enqueue(m, warrior_id,
                        IF ~_compare_equal(md, src, dst) THEN <<skip>>
                        ELSE <<next_pc>>)
          [] op = "SLT" ->
               _enqueue(m, warrior_id,
                        IF _compare_less_than(md, src, dst) THEN <<skip>>
                        ELSE <<next_pc>>)
          [] op = "NOP" -> _enqueue(m, warrior_id, <<next_pc>>)
          [] OTHER -> _enqueue(m, warrior_id, <<next_pc>>)

NoExec == [executed |-> FALSE]

\* pc = warrior_state.processes.popleft()
_popleft(m, warrior_id) ==
    [m EXCEPT !.warriors[warrior_id].processes = Tail(@)]

\* Mutant of _track: the pc is recorded but the instruction is not counted.
_track_uncounted(m, warrior_id, pc) ==
    [m EXCEPT !.warriors[warrior_id].memory_accessed = @ \cup {pc}]

\* Mutant of _track: the instruction is counted twice.
_track_twice(m, warrior_id, pc) ==
    [m EXCEPT !.warriors[warrior_id].instructions_executed = @ + 2,
              !.warriors[warrior_id].memory_accessed = @ \cup {pc}]

\* "Track metrics": instructions_executed += 1; memory_accessed.add(pc)
_track(m, warrior_id, pc) ==
    [m EXCEPT !.warriors[warrior_id].instructions_executed = @ + 1,
              !.warriors[warrior_id].memory_accessed = @ \cup {pc}]

\* Mutant of _set_alive: the flag is left as it was.
_set_alive_stale(m, warrior_id) == m

\* warrior_state.is_alive = len(warrior_state.processes) > 0
_set_alive(m, warrior_id) ==
    [m EXCEPT !.warriors[warrior_id].is_alive =
                  Len(m.warriors[warrior_id].processes) > 0]

\* Mutant of _snapshot: the cell is read as it was when the instruction
\* was fetched, before the operands were resolved.
_snapshot_early(fetched, resolved, ptr) == _read(fetched, ptr)

\* src = self._read(a_addr); dst = self._read(b_addr): both are read from
\* the core as the two operand resolutions left it.
_snapshot(fetched, resolved, ptr) == _read(resolved, ptr)

\* Mutant of _resolve_operands: the B-operand is resolved first.
_resolve_operands_b_first(m, pc, warrior_id) ==
    LET instr == _read(m, pc)
        rb == _resolve_address(m, pc, instr.b_mode, instr.b_value, warrior_id)
        instrA == _read(rb.m, pc)
        ra == _resolve_address(rb.m, pc, instrA.a_mode, instrA.a_value,
                               warrior_id)
    IN  [a |-> ra, b |-> [rb EXCEPT !.m = ra.m]]

\* a_addr, a_val = self._resolve_address(pc, instr.a_mode, instr.a_value, ...)
\* b_addr, b_val = self._resolve_address(pc, instr.b_mode, instr.b_value, ...)
\* instr is the object held by the core at pc, so the B-operand's mode and
\* value are those of that cell as the A-operand's resolution left it.
_resolve_operands(m, pc, warrior_id) ==
    LET instr == _read(m, pc)
        ra == _resolve_address(m, pc, instr.a_mode, instr.a_value, warrior_id)
        instrB == _read(ra.m, pc)
        rb == _resolve_address(ra.m, pc, instrB.b_mode, instrB.b_value,
                               warrior_id)
    IN  [a |-> ra, b |-> rb]

_execute_one(m0, warrior_id, maxp) ==
    LET ws == m0.warriors[warrior_id]
    IN  IF ws.processes = <<>>
        THEN [m |-> [m0 EXCEPT !.warriors[warrior_id].is_alive = FALSE],
              popped |-> 0, info |-> NoExec]
        ELSE
        LET pc == Head(ws.processes)
            m1 == _track(_popleft(m0, warrior_id), warrior_id, pc)
            instr == _read(m1, pc)
            next_pc == _normalize(pc + 1)
            r == _resolve_operands(m1, pc, warrior_id)
            ra == r.a
            rb == r.b
            src == _snapshot(m1, rb.m, ra.ptr)
            dst == _snapshot(m1, rb.m, rb.ptr)
            m2 == _dispatch(rb.m, instr, src, dst, ra.ptr, rb.ptr, next_pc,
                            warrior_id, maxp)
            m3 == _set_alive(m2, warrior_id)
        IN  [m |-> m3, popped |-> 1,
             info |-> [executed |-> TRUE, warrior_id |-> warrior_id,
                       pc |-> pc, instr |-> instr, next_pc |-> next_pc,
                       a_addr |-> ra.ptr, b_addr |-> rb.ptr,
                       a_val |-> ra.val, b_val |-> rb.val,
                       src |-> src, dst |-> dst, fetched |-> m1,
                       after_a |-> ra.m, resolved |-> rb.m]]

(***************************************************************************)
(* The MARS object as a machine value, and the constructor parameters.     *)
(***************************************************************************)
Machine == [core |-> core, ownership |-> ownership, warriors |-> warriors]

max_cycles == MaxCycles

max_length == MaxLength

Addresses == 0 .. (CoreSize - 1)

Alive(ws) == {w \in DOMAIN ws : ws[w].is_alive}

(***************************************************************************)
(* step().  The while-loop that looks for the current warrior has no exit  *)
(* of its own: _skip_dead advances from index idx (0-based) to the first   *)
(* index whose warrior is alive, and yields -1 when it has gone round the  *)
(* whole order without finding one (or the order is empty), which in the   *)
(* source is a loop that never ends, or an IndexError: step() does not     *)
(* return (hung).                                                          *)
(***************************************************************************)
RECURSIVE _skip_dead(_, _, _, _)
_skip_dead(ws, order, idx, fuel) ==
    IF fuel = 0 \/ order = <<>> THEN -1
    ELSE IF ws[order[idx + 1]].is_alive THEN idx
    ELSE _skip_dead(ws, order, (idx + 1) % Len(order), fuel - 1)

\* Mutant of _step_continues: the count of living warriors is not tested.
_step_continues_cycles_only(c, ws) == ~(c >= max_cycles)

\* Mutant of _step_continues: a single living warrior keeps stepping.
_step_continues_alone(c, ws) ==
    /\ ~(c >= max_cycles)
    /\ ~(Cardinality(Alive(ws)) < 1)

\* step() passes both early returns
_step_continues(c, ws) ==
    /\ ~(c >= max_cycles)
    /\ ~(Cardinality(Alive(ws)) <= 1)

\* Mutant of _next_idx: the turn is not passed on.
_next_idx_stay(idx, order) == idx

\* self.current_warrior_idx = (self.current_warrior_idx + 1) % len(order)
_next_idx(idx, order) == (idx + 1) % Len(order)

\* The body of step() after the early returns.
_step_body ==
    LET idx == _skip_dead(warriors, warrior_order, current_warrior_idx,
                          Len(warrior_order) + 1)
    IN  IF idx = -1
        THEN /\ hung' = TRUE
             /\ UNCHANGED <<core, ownership, warriors, warrior_order,
                            current_warrior_idx, cycle, dequeued, exec_log,
                            last>>
        ELSE
        LET warrior_id == warrior_order[idx + 1]
        IN  \E r \in {_execute_one(Machine, warrior_id, max_processes)} :
            /\ core' = r.m.core
            /\ ownership' = r.m.ownership
            /\ warriors' = r.m.warriors
            /\ current_warrior_idx' = _next_idx(idx, warrior_order)
            /\ cycle' = cycle + 1
            /\ dequeued' = [dequeued EXCEPT ![warrior_id] = @ + r.popped]
            /\ exec_log' = Append(exec_log,
                                  [warrior_id |-> warrior_id,
                                   alive |-> Alive(warriors),
                                   instr |-> IF r.info.executed
                                             THEN r.info.instr
                                             ELSE DefaultInstruction])
            /\ last' = r.info
            /\ UNCHANGED <<warrior_order, hung>>

(***************************************************************************)
(* load_warrior(warrior, position, warrior_id)                             *)
(***************************************************************************)
RECURSIVE _copy_to_core(_, _, _, _)
_copy_to_core(c, instrs, position, i) ==
    IF i > Len(instrs) THEN c
    ELSE _copy_to_core([c EXCEPT ![_normalize(position + i - 1)] = instrs[i]],
                       instrs, position, i + 1)

RECURSIVE _own_cells(_, _, _, _, _)
_own_cells(o, n, position, i, warrior_id) ==
    IF i > n THEN o
    ELSE _own_cells([o EXCEPT ![_normalize(position + i - 1)] = warrior_id],
                    n, position, i + 1, warrior_id)

_start_pc(warrior, position) == _normalize(position + warrior.start_offset)

load_warrior(warrior, position, warrior_id) ==
    IF Len(warrior.instructions) > max_length
    THEN UNCHANGED mars_vars
    ELSE
    /\ core' = _copy_to_core(core, warrior.instructions, position, 1)
    /\ ownership' = _own_cells(ownership, Len(warrior.instructions),
                               position, 1, warrior_id)
    /\ warriors' = (warrior_id :> WarriorState(_start_pc(warrior, position)))
                      @@ warriors
    /\ warrior_order' = Append(warrior_order, warrior_id)
    /\ dequeued' = (warrior_id :> 0) @@ dequeued
    /\ UNCHANGED <<current_warrior_idx, cycle, running, max_processes,
                   run_pc, run_result, hung, exec_log, last>>

(***************************************************************************)
(* run(): RunStart is `self.running = True`, RunStep one iteration of      *)
(* `while self.step(): pass` whose step() returns True, RunReturn the      *)
(* iteration whose step() returns False followed by the rest of run().     *)
(* run() is the only caller of step() in the repository.                   *)
(***************************************************************************)
RunStart ==
    /\ run_pc = "idle"
    /\ running' = TRUE
    /\ run_pc' = "loop"
    /\ UNCHANGED <<core, ownership, warriors, warrior_order,
                   current_warrior_idx, cycle, max_processes, run_result,
                   hung, dequeued, exec_log, last>>
    /\ UNCHANGED <<gen, battle, tour, elites, app_vars>>

RunStep ==
    /\ run_pc = "loop"
    /\ ~hung
    /\ _step_continues(cycle, warriors)
    /\ _step_body
    /\ UNCHANGED <<running, max_processes, run_pc, run_result>>
    /\ UNCHANGED <<gen, battle, tour, elites, app_vars>>

\* Mutant of _winner: any living warrior wins.
_winner_any(ws) ==
    IF Alive(ws) # {} THEN CHOOSE w \in Alive(ws) : TRUE ELSE None

\* "Determine winner" at the end of run()
_winner(ws) ==
    LET alive == Alive(ws)
    IN  IF Cardinality(alive) = 1 THEN CHOOSE w \in alive : TRUE ELSE None

RunReturn ==
    /\ run_pc = "loop"
    /\ ~hung
    /\ ~_step_continues(cycle, warriors)
    /\ running' = FALSE
    /\ run_result' = _winner(warriors)
    /\ run_pc' = "done"
    /\ UNCHANGED <<core, ownership, warriors, warrior_order,
                   current_warrior_idx, cycle, max_processes, hung, dequeued,
                   exec_log, last>>
    /\ UNCHANGED <<gen, battle, tour, elites, app_vars>>

\* MARS.__init__ (with the history variables empty)
MarsInit ==
    /\ core = [a \in Addresses |-> DefaultInstruction]
    /\ ownership = [a \in Addresses |-> -1]
    /\ warriors = <<>>
    /\ warrior_order = <<>>
    /\ current_warrior_idx = 0
    /\ cycle = 0
    /\ running = FALSE
    /\ max_processes \in 1 .. MaxProcBound
    /\ run_pc = "idle"
    /\ run_result = None
    /\ hung = FALSE
    /\ dequeued = <<>>
    /\ exec_log = <<>>
    /\ last = NoExec

\* No call of the operations of an object is in progress.
NoCall == [pc |-> "idle"]

Init ==
    /\ MarsInit
    /\ gen = NoCall
    /\ battle = NoCall
    /\ tour = NoCall
    /\ elites = NoCall
    /\ desc = NoCall
    /\ fit = NoCall
    /\ drq = NoCall
    /\ llm = NoCall

(***************************************************************************)
(* Spec: battles of up to three warriors drawn from a pool of short        *)
(* programs, loaded at any position.  As in Battle.run and                 *)
(* visualize.py, warrior i is loaded with id i and all warriors are loaded *)
(* before run() is called.                                                 *)
(***************************************************************************)
Dat00 == Instruction("DAT", "F", "IMMEDIATE", 0, "IMMEDIATE", 0)

Imp == Warrior(<<Instruction("MOV", "I", "DIRECT", 0, "DIRECT", 1)>>, 0)

Suicide == Warrior(<<Dat00>>, 0)

Splitter == Warrior(<<Instruction("SPL", "B", "DIRECT", 0, "DIRECT", 0)>>, 0)

Looper == Warrior(<<Instruction("JMP", "B", "DIRECT", 0, "DIRECT", 0)>>, 0)

NopThenDie ==
    Warrior(<<Instruction("NOP", "F", "DIRECT", 0, "DIRECT", 0), Dat00>>, 0)

DivByZero ==
    Warrior(<<Instruction("DIV", "AB", "IMMEDIATE", 0, "DIRECT", 1), Dat00>>, 0)

SplitJump ==
    Warrior(<<Instruction("JMP", "B", "DIRECT", -1, "B_PREDEC", CoreSize),
              Instruction("SPL", "B", "A_POSTINC", -1, "DIRECT", 0)>>, 1)

TooLong ==
    Warrior([i \in 1 .. (MaxLength + 1) |-> DefaultInstruction], 0)

BattleWarriors ==
    {Imp, Suicide, Splitter, Looper, NopThenDie, DivByZero, SplitJump, TooLong}

WarriorSlots == {0, 1, 2}

LoadWarrior ==
    /\ run_pc = "idle"
    /\ Len(warrior_order) \in WarriorSlots
    /\ \E warrior \in BattleWarriors, position \in Addresses :
          load_warrior(warrior, position, Len(warrior_order))
    /\ UNCHANGED <<gen, battle, tour, elites, app_vars>>

Next == LoadWarrior \/ RunStart \/ RunStep \/ RunReturn

Spec == Init /\ [][Next]_vars

(***************************************************************************)
(* FairSpec: the same battles with the warriors placed as visualize.py     *)
(* places them, warrior i at i * spacing, and with a run() that is not     *)
(* abandoned half-way: its loop keeps being scheduled.                     *)
(***************************************************************************)
_spacing == CoreSize \div Cardinality(WarriorSlots)

LoadSpaced ==
    /\ run_pc = "idle"
    /\ Len(warrior_order) \in WarriorSlots
    /\ \E warrior \in BattleWarriors :
          load_warrior(warrior, Len(warrior_order) * _spacing,
                       Len(warrior_order))
    /\ UNCHANGED <<gen, battle, tour, elites, app_vars>>

NextSpaced == LoadSpaced \/ RunStart \/ RunStep \/ RunReturn

FairSpec ==
    Init /\ [][NextSpaced]_vars /\ WF_vars(RunStep) /\ WF_vars(RunReturn)

(***************************************************************************)
(* Properties of the executor, checked under Spec.                         *)
(***************************************************************************)
Loaded == DOMAIN warriors

Queue(w) == warriors[w].processes

RECURSIVE SumLen(_)
SumLen(S) ==
    IF S = {} THEN 0
    ELSE LET w == CHOOSE x \in S : TRUE IN Len(Queue(w)) + SumLen(S \ {w})

\* C1: for every loaded warrior, is_alive is true iff its process queue is
\* non-empty, in every state reached by loading and stepping.
C1_AliveIffQueue ==
    \A w \in Loaded : warriors[w].is_alive <=> Queue(w) # <<>>

C1_Witness ==
    /\ cycle > 0
    /\ \E w, v \in Loaded :
          /\ ~warriors[w].is_alive /\ Queue(w) = <<>>
          /\ warriors[v].is_alive /\ Len(Queue(v)) >= 2

\* C2: every warrior's process queue holds at most max_processes program
\* counters, so the total over the N loaded warriors is at most
\* N * max_processes.
C2_QueueBound ==
    /\ \A w \in Loaded : Len(Queue(w)) <= max_processes
    /\ SumLen(Loaded) <= Cardinality(Loaded) * max_processes

\* A warrior at the cap whose last SPL was refused the split.
C2_Witness ==
    /\ last.executed
    /\ last.instr.opcode = "SPL"
    /\ max_processes >= 2
    /\ Len(Queue(last.warrior_id)) = max_processes
    /\ warriors[last.warrior_id].threads_spawned <
          warriors[last.warrior_id].instructions_executed

\* C4: each warrior's instructions_executed equals the number of program
\* counters dequeued from its process queue since it was loaded.
C4_ExecutedIsDequeued ==
    \A w \in Loaded : warriors[w].instructions_executed = dequeued[w]

C4_Witness ==
    \E w, v \in Loaded :
       /\ warriors[w].instructions_executed >= 2
       /\ dequeued[w] >= 2
       /\ ~warriors[v].is_alive
       /\ dequeued[v] >= 1

\* C5: every run() that has entered its loop returns (the loop of step()
\* that skips dead warriors included), and when it has returned the cycle
\* counter is at most max_cycles.
C5_RunTerminates ==
    (run_pc = "loop") ~> (run_pc = "done" /\ ~hung /\ cycle <= max_cycles)

\* run() has returned at the cycle limit after a dead warrior was skipped.
C5_Witness ==
    /\ run_pc = "done"
    /\ cycle = max_cycles
    /\ Cardinality(Loaded) = 3
    /\ Cardinality(Alive(warriors)) = 2

\* C6, as stated: whenever run() ends with cycle = max_cycles it returns
\* None (a draw), whatever the last executed instruction did.
C6_DrawAtLimit ==
    (run_pc = "done" /\ cycle = max_cycles) => run_result = None

\* C6, amended: when run() ends with cycle = max_cycles it returns None
\* unless exactly one warrior is alive, and then it returns that warrior.
C6_DrawAtLimitUnlessSoleSurvivor ==
    (run_pc = "done" /\ cycle = max_cycles) =>
        IF Cardinality(Alive(warriors)) = 1
        THEN run_result \in Alive(warriors)
        ELSE run_result = None

C6_Witness ==
    /\ run_pc = "done"
    /\ cycle = max_cycles
    /\ cycle > 0
    /\ Cardinality(Alive(warriors)) >= 2
    /\ run_result = None

(***************************************************************************)
(* C7.  Position(w) is the registration index of w; NextAlive(p, alive) is *)
(* the first warrior strictly after index p, in cyclic registration order, *)
(* that belongs to alive.                                                  *)
(***************************************************************************)
Position(w) == CHOOSE i \in 1 .. Len(warrior_order) : warrior_order[i] = w

CyclicAt(p, d) == warrior_order[((p - 1 + d) % Len(warrior_order)) + 1]

NextAlive(p, alive) ==
    LET d == CHOOSE k \in 1 .. Len(warrior_order) :
                /\ CyclicAt(p, k) \in alive
                /\ \A j \in 1 .. (k - 1) : CyclicAt(p, j) \notin alive
    IN  CyclicAt(p, d)

Turns(w, i, j) ==
    Cardinality({k \in (i + 1) .. (j - 1) : exec_log[k].warrior_id = w})

C7_Order ==
    \A k \in 1 .. Len(exec_log) :
       /\ exec_log[k].warrior_id \in exec_log[k].alive
       /\ exec_log[k].warrior_id =
             IF k = 1 THEN NextAlive(Len(warrior_order), exec_log[k].alive)
             ELSE NextAlive(Position(exec_log[k - 1].warrior_id),
                            exec_log[k].alive)

C7_OncePerRound ==
    \A i, j \in 1 .. Len(exec_log) :
       (/\ i < j
        /\ exec_log[i].warrior_id = exec_log[j].warrior_id
        /\ Turns(exec_log[i].warrior_id, i, j) = 0)
       => \A v \in Loaded \ {exec_log[i].warrior_id} :
             /\ Turns(v, i, j) <= 1
             /\ v \in exec_log[j].alive => Turns(v, i, j) = 1

C7_OrderKept ==
    (cycle' # cycle) =>
        /\ warrior_order' = warrior_order
        /\ cycle' = cycle + 1
        /\ Len(exec_log') = Len(exec_log) + 1
        /\ warriors'[exec_log'[Len(exec_log')].warrior_id].instructions_executed
              = warriors[exec_log'[Len(exec_log')].warrior_id].instructions_executed + 1

\* C7: warriors execute in strict round-robin in registration order: the
\* next warrior to execute is the first one after the previous executor, in
\* cyclic registration order, that is alive at that moment; dead warriors
\* are skipped, warrior_order is not changed by stepping, every turn
\* executes one instruction, and between two consecutive turns of a warrior
\* every other living warrior executes exactly one instruction.
C7_RoundRobin ==
    /\ [](C7_Order /\ C7_OncePerRound)
    /\ [][C7_OrderKept]_vars

\* A dead warrior's slot was passed over: the executor is not the
\* registration successor of the previous executor.
C7_Witness ==
    /\ Cardinality(Loaded) = 3
    /\ \E k \in 2 .. Len(exec_log) :
          /\ exec_log[k].warrior_id #
                CyclicAt(Position(exec_log[k - 1].warrior_id), 1)
          /\ exec_log[k].alive # Loaded
    /\ \E i, j \in 1 .. Len(exec_log) :
          i < j /\ exec_log[i].warrior_id = exec_log[j].warrior_id

(***************************************************************************)
(* C9 and C10: the effect of one executed SPL on the queue of its warrior. *)
(***************************************************************************)
SplExecuted ==
    /\ cycle' = cycle + 1
    /\ last'.executed
    /\ last'.instr.opcode = "SPL"

\* What an instruction appended to a queue q that has become q2.
Added(q, q2) == SubSeq(q2, Len(q), Len(q2))

C9_Step ==
    SplExecuted =>
        LET w == last'.warrior_id
            a == last'.a_addr
            n == last'.next_pc
            q == warriors[w].processes
            q2 == warriors'[w].processes
        IN  /\ Len(q2) >= Len(q)
            /\ SubSeq(q2, 1, Len(q) - 1) = Tail(q)
            /\ IF Len(q) < max_processes
               THEN /\ Added(q, q2) \in {<<a, n>>, <<n, a>>}
                    /\ warriors'[w].threads_spawned =
                          warriors[w].threads_spawned + 1
               ELSE /\ Added(q, q2) = <<n>>
                    /\ warriors'[w].threads_spawned =
                          warriors[w].threads_spawned

Spl00 == Instruction("SPL", "B", "DIRECT", 0, "DIRECT", 0)

TurnsOf(w) == {k \in 1 .. Len(exec_log) : exec_log[k].warrior_id = w}

C9_Scenario ==
    \A w \in Loaded :
       (/\ max_processes = 2
        /\ warriors[w].instructions_executed = 2
        /\ \A k \in TurnsOf(w) : exec_log[k].instr = Spl00)
       => /\ Len(Queue(w)) = 2
          /\ warriors[w].threads_spawned = 1

\* C9: SPL always enqueues next_pc; it enqueues the split target a_ptr and
\* increments threads_spawned by one iff the queue length before dequeuing
\* the current pc is below max_processes.  With max_processes = 2, a
\* warrior that has executed `SPL $0, $0` twice has a queue of length 2 and
\* threads_spawned = 1.
C9_SplCap ==
    /\ [][C9_Step]_vars
    /\ []C9_Scenario

C9_Witness ==
    \E w \in Loaded :
       /\ max_processes = 2
       /\ warriors[w].instructions_executed = 2
       /\ \A k \in TurnsOf(w) : exec_log[k].instr = Spl00
       /\ Len(Queue(w)) = 2
       /\ warriors[w].threads_spawned = 1

C10_Step ==
    (SplExecuted /\ Len(warriors[last'.warrior_id].processes) < max_processes)
    => Added(warriors[last'.warrior_id].processes,
             warriors'[last'.warrior_id].processes)
          = <<last'.next_pc, last'.a_addr>>

\* C10: when SPL performs a split, next_pc is placed in the queue before
\* the split target a_ptr.
C10_NextPcFirst == [][C10_Step]_vars

(***************************************************************************)
(* C11: the effect of one executed DAT on the warrior that executed it.    *)
(***************************************************************************)
DatExecuted ==
    /\ cycle' = cycle + 1
    /\ last'.executed
    /\ last'.instr.opcode = "DAT"

C11_Step ==
    DatExecuted =>
        LET w == last'.warrior_id
            rest == Tail(warriors[w].processes)
        IN  /\ warriors'[w].processes = rest
            /\ warriors'[w].is_alive = (rest # <<>>)
            /\ warriors'[w].instructions_executed =
                  warriors[w].instructions_executed + 1

\* C11: executing DAT enqueues no program counter.  The queue of the
\* warrior becomes its old queue without the executed pc, same order; the
\* warrior is alive afterwards iff that rest is non-empty (so a warrior
\* whose only process executed the DAT is dead with an empty queue), and
\* its instructions_executed has grown by exactly 1.
C11_DatKillsProcess == [][C11_Step]_vars

\* The last instruction was a DAT of a warrior that keeps another process,
\* and another warrior died of the DAT that was its only instruction.
C11_Witness ==
    /\ last.executed
    /\ last.instr.opcode = "DAT"
    /\ Queue(last.warrior_id) # <<>>
    /\ warriors[last.warrior_id].is_alive
    /\ \E v \in Loaded :
          /\ ~warriors[v].is_alive
          /\ Queue(v) = <<>>
          /\ warriors[v].instructions_executed = 1
          /\ \E k \in TurnsOf(v) : exec_log[k].instr.opcode = "DAT"

(***************************************************************************)
(* OpsSpec: one subject warrior, loaded first so that it takes the first   *)
(* turn, against one opponent that only keeps the battle going.  The       *)
(* subject's first instruction ranges over every pair of addressing modes  *)
(* with operand values below 0, equal to 0 and above the core size, and    *)
(* over DIV and MOD under every modifier with zero and non-zero sources.   *)
(***************************************************************************)
ProbeValues == {-1, 0, CoreSize + 1}

OpsData == Instruction("DAT", "F", "IMMEDIATE", CoreSize + 1, "IMMEDIATE", -2)

ModeProbes ==
    {Instruction("JMP", "B", am, av, bm, bv) :
        am \in AddressMode, av \in ProbeValues,
        bm \in AddressMode, bv \in ProbeValues}

DivProbes ==
    {Instruction(op, md, "IMMEDIATE", av, bm, bv) :
        op \in {"DIV", "MOD"}, md \in Modifier, av \in {0, 2, -1},
        bm \in {"DIRECT", "B_POSTINC"}, bv \in {0, 1}}

SplitThenDivide ==
    Warrior(<<Spl00, Instruction("DIV", "F", "IMMEDIATE", 2, "DIRECT", 0)>>, 0)

StartsSecond ==
    Warrior(<<Dat00, Instruction("JMP", "B", "DIRECT", 0, "DIRECT", 0)>>, 1)

MovPostInc == Instruction("MOV", "I", "A_POSTINC", 1, "DIRECT", 2)

PostIncMove == Warrior(<<MovPostInc, Dat00>>, 0)

\* Fields that are congruent to 0 modulo the core size without being 0
ZeroData == Instruction("DAT", "F", "IMMEDIATE", CoreSize, "IMMEDIATE", 0 - CoreSize)

SmallData == Instruction("DAT", "F", "IMMEDIATE", 1, "IMMEDIATE", 3)

\* Source: the data cell that follows; destination: the instruction
\* itself, the data cell, or the cell after it.
OpProbes ==
    {Instruction(op, md, "DIRECT", 1, "DIRECT", bv) :
        op \in {"MOV", "ADD", "SUB", "MUL", "JMZ", "JMN", "DJN", "SEQ", "CMP",
                "SNE", "SLT"},
        md \in Modifier, bv \in {0, 1, 2}}

\* Source: the instruction itself; destination: the data cell that follows.
CompareProbes ==
    {Instruction(op, md, "DIRECT", 0, "DIRECT", 1) :
        op \in {"SEQ", "SNE", "SLT", "DJN"}, md \in Modifier}

SubjectWarriors ==
    {Warrior(<<i, OpsData>>, 0) : i \in ModeProbes \cup DivProbes}
        \cup {SplitThenDivide, StartsSecond, DivByZero, PostIncMove}
        \cup {Warrior(<<i, d>>, 0) : i \in OpProbes, d \in {OpsData, ZeroData}}
        \cup {Warrior(<<i, SmallData>>, 0) : i \in CompareProbes}

LoadSubject ==
    /\ run_pc = "idle"
    /\ Len(warrior_order) = 0
    /\ \E warrior \in SubjectWarriors, position \in Addresses :
          load_warrior(warrior, position, 0)
    /\ UNCHANGED <<gen, battle, tour, elites, app_vars>>

LoadOpponent ==
    /\ run_pc = "idle"
    /\ Len(warrior_order) = 1
    /\ \E position \in Addresses : load_warrior(Looper, position, 1)
    /\ UNCHANGED <<gen, battle, tour, elites, app_vars>>

NextOps == LoadSubject \/ LoadOpponent \/ RunStart \/ RunStep \/ RunReturn

OpsSpec == Init /\ [][NextOps]_vars

\* C3: the pointers returned by effective-address resolution lie in
\* [0, M) for every addressing mode and operand value, and so does every
\* program counter in a process queue.
C3_PointersInCore ==
    /\ last.executed =>
          /\ last.a_addr \in Addresses
          /\ last.b_addr \in Addresses
    /\ \A w \in Loaded :
          \A k \in 1 .. Len(Queue(w)) : Queue(w)[k] \in Addresses

\* Both operands resolved through a modified cell, one value negative and
\* one above the core size.
C3_Witness ==
    /\ last.executed
    /\ last.instr.a_mode = "B_PREDEC"
    /\ last.instr.a_value < 0
    /\ last.instr.b_mode = "A_POSTINC"
    /\ last.instr.b_value >= CoreSize
    /\ Queue(last.warrior_id) = <<last.a_addr>>

(***************************************************************************)
(* C8.  The source field(s) a modifier selects as divisor.                 *)
(***************************************************************************)
SelectedSourceZero(md, S) ==
    CASE md \in {"A", "AB"} -> S.a_value = 0
      [] md \in {"B", "BA"} -> S.b_value = 0
      [] OTHER -> S.a_value = 0 \/ S.b_value = 0

DividedByZero(i) ==
    /\ i.executed
    /\ i.instr.opcode \in {"DIV", "MOD"}
    /\ SelectedSourceZero(i.instr.modifier, i.src)

C8_Step ==
    (cycle' = cycle + 1 /\ DividedByZero(last')) =>
        LET w == last'.warrior_id
            b == last'.b_addr
            R == last'.resolved
        IN  /\ core'[b] = R.core[b]
            /\ ownership'[b] = R.ownership[b]
            /\ warriors'[w].memory_writes = R.warriors[w].memory_writes
            /\ warriors'[w].processes = Tail(warriors[w].processes)
            /\ \A v \in Loaded \ {w} : warriors'[v] = warriors[v]

\* C8: when DIV or MOD executes and the source field selected by the
\* modifier is zero (for F, X and I: either source field), nothing is
\* written at b_ptr (cell, ownership tag and memory_writes stay as operand
\* resolution left them), the current pc is not re-enqueued, and the other
\* processes of the warrior and all other warriors are unaffected.
C8_DivByZeroKills == [][C8_Step]_vars

\* A division by zero under F with one non-zero source field, by a warrior
\* that keeps another process.
C8_Witness ==
    /\ DividedByZero(last)
    /\ last.instr.modifier = "F"
    /\ last.src.a_value # 0
    /\ Len(Queue(last.warrior_id)) >= 1

(***************************************************************************)
(* C12: `MOV.I }1, $2` executed at address 0 while cell 1 holds            *)
(* `DAT.F #0, #0`.                                                         *)
(***************************************************************************)
PostIncMoveExecuted ==
    /\ cycle' = cycle + 1
    /\ last'.executed
    /\ last'.pc = 0
    /\ last'.instr = MovPostInc
    /\ core[1] = Dat00

C12_StepAsStated ==
    PostIncMoveExecuted => (core'[1].b_value = 1 /\ core'[2].a_value = 0)

\* C12, as stated: after the instruction cell 1's B-field is 1 and cell 2's
\* A-field is 0.
C12_PostIncSnapshot == [][C12_StepAsStated]_vars

C12_Step ==
    PostIncMoveExecuted =>
        /\ core'[1] = [Dat00 EXCEPT !.a_value = 1]
        /\ core'[2] = core'[1]
        /\ last'.a_addr = 1
        /\ last'.b_addr = 2

\* C12, amended: `}` increments the A-field, so after the instruction cell
\* 1 is `DAT.F #1, #0` (A-field 1, B-field still 0); the A-pointer is the
\* one derived before the increment (address 1), and the source is read
\* after the increment, so cell 2 is a copy of the incremented cell 1 and
\* its A-field is 1.
C12_PostIncMovesIncremented == [][C12_Step]_vars

C12_Witness ==
    /\ cycle = 1
    /\ last.executed
    /\ last.pc = 0
    /\ last.instr = MovPostInc
    /\ core[1] = [Dat00 EXCEPT !.a_value = 1]
    /\ core[2] = core[1]
    /\ ownership[1] = 0
    /\ ownership[2] = 0

(***************************************************************************)
(* Battle (src/corewar/battle.py).  The Battle object keeps min_distance   *)
(* and num_rounds; core size, cycle limit, process limit and length limit  *)
(* are those of the machine above.                                         *)
(***************************************************************************)
Battle(min_distance, num_rounds) ==
    [pc |-> "idle", min_distance |-> min_distance, num_rounds |-> num_rounds]

Max(a, b) == IF a >= b THEN a ELSE b

Min(a, b) == IF a <= b THEN a ELSE b

(***************************************************************************)
(* Battle._generate_positions(num_warriors, lengths).  The frame gen holds *)
(* the locals positions and attempts; pos (the candidate of the last       *)
(* iteration) and sampled (the positions accepted by sampling) are kept    *)
(* for the record.  lengths is 1-based here: lengths[i] of the source is   *)
(* lengths[i + 1].                                                         *)
(***************************************************************************)
max_attempts == MaxAttempts

\* dist1 = abs(pos - other_pos); dist2 = core_size - dist1; min(dist1, dist2)
_min_dist(pos, other_pos) ==
    LET dist1 == IF pos >= other_pos THEN pos - other_pos ELSE other_pos - pos
        dist2 == CoreSize - dist1
    IN  Min(dist1, dist2)

\* max(lengths[i], lengths[len(positions)]) + self.min_distance
_required_dist(lengths, i, positions, min_distance) ==
    Max(lengths[i], lengths[Len(positions) + 1]) + min_distance

\* Mutant of _far_enough: a candidate at exactly the required distance is
\* turned down.
_far_enough_strict(min_dist, required_dist) == min_dist > required_dist

\* `if min_dist < required_dist: valid = False`
_far_enough(min_dist, required_dist) == ~(min_dist < required_dist)

_valid(pos, positions, lengths, min_distance) ==
    \A i \in 1 .. Len(positions) :
       _far_enough(_min_dist(pos, positions[i]),
                   _required_dist(lengths, i, positions, min_distance))

\* while len(positions) < num_warriors and attempts < max_attempts
_keep_sampling(positions, attempts, num_warriors) ==
    Len(positions) < num_warriors /\ attempts < max_attempts

\* spacing = core_size // num_warriors; [i * spacing for i in range(n)]
_evenly_spaced(num_warriors) ==
    [i \in 1 .. num_warriors |-> (i - 1) * (CoreSize \div num_warriors)]

\* Mutant of _positions_or_fallback: what was sampled is returned as it is.
_positions_as_sampled(positions, num_warriors) == positions

\* `if len(positions) < num_warriors:` fall back to even spacing
_positions_or_fallback(positions, num_warriors) ==
    IF Len(positions) < num_warriors THEN _evenly_spaced(num_warriors)
    ELSE positions

\* The frame at the entry of _generate_positions.
_generate_positions(num_warriors, lengths) ==
    [pc |-> "loop", num_warriors |-> num_warriors, lengths |-> lengths,
     positions |-> <<>>, attempts |-> 0, pos |-> None, sampled |-> <<>>]

\* One iteration of the while-loop: pos = random.randint(0, core_size - 1)
GenSample ==
    /\ gen.pc = "loop"
    /\ _keep_sampling(gen.positions, gen.attempts, gen.num_warriors)
    /\ \E pos \in Addresses :
          LET positions ==
                IF _valid(pos, gen.positions, gen.lengths, battle.min_distance)
                THEN Append(gen.positions, pos)
                ELSE gen.positions
          IN  gen' = [gen EXCEPT !.positions = positions,
                                 !.attempts = @ + 1,
                                 !.pos = pos,
                                 !.sampled = positions]
    /\ UNCHANGED <<mars_vars, battle, tour, elites, app_vars>>

\* The loop exit, the fallback and `return positions`.
GenReturn ==
    /\ gen.pc = "loop"
    /\ ~_keep_sampling(gen.positions, gen.attempts, gen.num_warriors)
    /\ gen' = [gen EXCEPT
                 !.positions = _positions_or_fallback(gen.positions,
                                                      gen.num_warriors),
                 !.pc = "done"]
    /\ UNCHANGED <<mars_vars, battle, tour, elites, app_vars>>

(***************************************************************************)
(* PlaceSpec: _generate_positions called for one to three warriors of any  *)
(* length up to one more than the machine loads, by a Battle with any      *)
(* min_distance.  The loop is sequential code: once entered it keeps       *)
(* running.                                                                *)
(***************************************************************************)
WarriorCounts == {1, 2, 3}

PlaceCall ==
    /\ gen.pc = "idle"
    /\ \E num_warriors \in WarriorCounts :
       \E lengths \in [1 .. num_warriors -> 0 .. (MaxLength + 1)] :
          gen' = _generate_positions(num_warriors, lengths)
    /\ UNCHANGED <<mars_vars, battle, tour, elites, app_vars>>

PlaceInit ==
    /\ MarsInit
    /\ gen = NoCall
    /\ battle \in {Battle(d, 1) : d \in 0 .. MaxMinDistance}
    /\ tour = NoCall
    /\ elites = NoCall
    /\ desc = NoCall
    /\ fit = NoCall
    /\ drq = NoCall
    /\ llm = NoCall

PlaceNext == PlaceCall \/ GenSample \/ GenReturn

PlaceSpec ==
    PlaceInit /\ [][PlaceNext]_vars /\ WF_vars(GenSample) /\ WF_vars(GenReturn)

(***************************************************************************)
(* C13 and C14.  CircularDistance is the distance on the ring of addresses,*)
(* Bound(i, j) the clearance asked between the i-th and the j-th warrior.  *)
(***************************************************************************)
CircularDistance(a, b) == Min((b - a) % CoreSize, (a - b) % CoreSize)

Bound(i, j) == Max(gen.lengths[i], gen.lengths[j]) + battle.min_distance

Sampled == gen.pc = "loop" /\ gen'.attempts = gen.attempts + 1

Accepted == gen'.positions = Append(gen.positions, gen'.pos)

C13_StepAsStated ==
    (Sampled /\ Accepted) =>
        \A i \in 1 .. Len(gen.positions) :
           CircularDistance(gen'.pos, gen.positions[i])
              > Bound(i, Len(gen.positions) + 1)

\* C13, as stated: a sampled candidate is accepted only if its minimum
\* circular distance to every placed warrior is strictly greater than
\* max(len(other), len(new)) + min_distance.
C13_StrictlyFarther == [][C13_StepAsStated]_vars

C13_Step ==
    Sampled =>
        /\ Accepted <=>
              \A i \in 1 .. Len(gen.positions) :
                 CircularDistance(gen'.pos, gen.positions[i])
                    >= Bound(i, Len(gen.positions) + 1)
        /\ Accepted \/ gen'.positions = gen.positions

\* C13, amended: a sampled candidate is accepted if and only if its
\* minimum circular distance to every placed warrior is at least
\* max(len(other), len(new)) + min_distance; a candidate at distance
\* exactly equal to that bound is accepted, any nearer one is rejected and
\* leaves the positions as they were.
C13_AtLeastAsFar == [][C13_Step]_vars

\* Two sampled positions at exactly the bound, after a rejection.
C13_Witness ==
    /\ gen.pc = "loop"
    /\ gen.sampled = gen.positions
    /\ Len(gen.positions) >= 2
    /\ gen.attempts > Len(gen.positions)
    /\ CircularDistance(gen.positions[1], gen.positions[2]) = Bound(1, 2)
    /\ Bound(1, 2) > 0

AllPassed(positions) ==
    \A i, j \in 1 .. Len(positions) :
       i < j => CircularDistance(positions[i], positions[j]) >= Bound(i, j)

C14_Result ==
    /\ Len(gen.positions) = gen.num_warriors
    /\ \A i \in 1 .. Len(gen.positions) : gen.positions[i] \in Addresses
    /\ gen.attempts <= max_attempts
    /\ IF Len(gen.sampled) = gen.num_warriors
       THEN gen.positions = gen.sampled /\ AllPassed(gen.positions)
       ELSE /\ gen.attempts = max_attempts
            /\ \A i \in 1 .. gen.num_warriors :
                  gen.positions[i] = (i - 1) * (CoreSize \div gen.num_warriors)

\* C14: every call of _generate_positions for num_warriors >= 1 returns
\* (it does not raise and its loop ends), and what it returns is exactly
\* num_warriors positions in [0, M): the sampled positions, which all
\* passed the distance test, or, when sampling gave up after max_attempts
\* attempts, the evenly spaced positions i * floor(M / num_warriors).
C14_PositionsReturned ==
    /\ (gen.pc = "loop") ~> (gen.pc = "done")
    /\ [](gen.pc = "done" => C14_Result)

\* Sampling gave up with one warrior placed and the fallback was returned.
C14_Witness ==
    /\ gen.pc = "done"
    /\ gen.num_warriors >= 2
    /\ Len(gen.sampled) = 1
    /\ gen.attempts = max_attempts
    /\ gen.positions = _evenly_spaced(gen.num_warriors)
    /\ gen.positions # gen.sampled

(***************************************************************************)
(* Battle.run(warriors).  The frame is kept in battle next to the fields   *)
(* of the Battle object: wins, draws, all_metrics and total_cycles are the *)
(* locals of the source, round counts the finished iterations of the       *)
(* rounds loop, loaded the load_warrior calls of the current round, and    *)
(* outcomes records what mars.run() returned round by round.  Warrior and  *)
(* wins indices are 0-based as in the source; the list warriors is         *)
(* 1-based.  memory_coverage is kept as the number of accessed addresses,  *)
(* that is in units of 1 / core_size.                                      *)
(***************************************************************************)
_ids(warriors_list) == 0 .. (Len(warriors_list) - 1)

\* The frame after the initialisations that precede the rounds loop.
_run_frame(b, warriors_list) ==
    [pc |-> "rounds", min_distance |-> b.min_distance,
     num_rounds |-> b.num_rounds, warriors |-> warriors_list,
     wins |-> [i \in _ids(warriors_list) |-> 0], draws |-> 0,
     all_metrics |-> [i \in _ids(warriors_list) |-> <<>>],
     total_cycles |-> 0, round |-> 0, loaded |-> 0, outcomes |-> <<>>]

\* `if len(warriors) < 2: raise ValueError(...)`, else the rounds loop
_battle_run(b, warriors_list) ==
    IF Len(warriors_list) < 2
    THEN [pc |-> "raised", min_distance |-> b.min_distance,
          num_rounds |-> b.num_rounds]
    ELSE _run_frame(b, warriors_list)

\* mars = MARS(...): a new machine with the limits of the Battle
_new_mars ==
    /\ core' = [a \in Addresses |-> DefaultInstruction]
    /\ ownership' = [a \in Addresses |-> -1]
    /\ warriors' = <<>>
    /\ warrior_order' = <<>>
    /\ current_warrior_idx' = 0
    /\ cycle' = 0
    /\ running' = FALSE
    /\ max_processes' = max_processes
    /\ run_pc' = "idle"
    /\ run_result' = None
    /\ hung' = FALSE
    /\ dequeued' = <<>>
    /\ exec_log' = <<>>
    /\ last' = NoExec

\* The head of one iteration of the rounds loop: the new machine and the
\* call of _generate_positions with the lengths of the warriors.
RoundBegin ==
    /\ battle.pc = "rounds"
    /\ battle.round < battle.num_rounds
    /\ _new_mars
    /\ gen' = _generate_positions(
                  Len(battle.warriors),
                  [i \in 1 .. Len(battle.warriors) |->
                      Len(battle.warriors[i].instructions)])
    /\ battle' = [battle EXCEPT !.pc = "place", !.loaded = 0]
    /\ UNCHANGED <<tour, elites, app_vars>>

\* One iteration of `for i, (warrior, pos) in enumerate(zip(...))`
RoundLoad ==
    /\ battle.pc = "place"
    /\ gen.pc = "done"
    /\ battle.loaded < Len(battle.warriors)
    /\ load_warrior(battle.warriors[battle.loaded + 1],
                    gen.positions[battle.loaded + 1], battle.loaded)
    /\ battle' = [battle EXCEPT !.loaded = @ + 1]
    /\ UNCHANGED <<gen, tour, elites, app_vars>>

\* winner = mars.run(), entered when every warrior has been loaded
RoundRun ==
    /\ battle.pc = "place"
    /\ gen.pc = "done"
    /\ battle.loaded = Len(battle.warriors)
    /\ RunStart

\* mars.get_behavioral_metrics(i): nothing for a warrior that is not loaded
get_behavioral_metrics(ws, warrior_id) ==
    IF warrior_id \notin DOMAIN ws THEN <<>>
    ELSE <<[memory_coverage |-> Cardinality(ws[warrior_id].memory_accessed),
            threads_spawned |-> ws[warrior_id].threads_spawned,
            instructions_executed |-> ws[warrior_id].instructions_executed,
            memory_writes |-> ws[warrior_id].memory_writes]>>

\* "Track results" and "Collect metrics" at the end of an iteration
RoundEnd ==
    /\ battle.pc = "place"
    /\ run_pc = "done"
    /\ battle' =
          [battle EXCEPT
             !.pc = "rounds",
             !.round = @ + 1,
             !.total_cycles = @ + cycle,
             !.wins = IF run_result # None
                      THEN [@ EXCEPT ![run_result] = @ + 1] ELSE @,
             !.draws = IF run_result # None THEN @ ELSE @ + 1,
             !.all_metrics =
                 [i \in DOMAIN @ |->
                     @[i] \o get_behavioral_metrics(warriors, i)],
             !.outcomes = Append(@, run_result)]
    /\ gen' = NoCall
    /\ UNCHANGED <<mars_vars, tour, elites, app_vars>>

RECURSIVE _max_of(_, _)
_max_of(f, S) ==
    IF S = {} THEN 0
    ELSE LET i == CHOOSE x \in S : TRUE
         IN  Max(f[i], _max_of(f, S \ {i}))

\* Mutant of _final_winner: the number of draws is not looked at.
_final_winner_ignoring_draws(wins, draws) ==
    LET max_wins == _max_of(wins, DOMAIN wins)
        winners == {i \in DOMAIN wins : wins[i] = max_wins}
    IN  IF Cardinality(winners) = 1
        THEN CHOOSE i \in winners : TRUE
        ELSE None

\* "Determine overall winner (most wins, or draw if tied)"
_final_winner(wins, draws) ==
    LET max_wins == _max_of(wins, DOMAIN wins)
        winners == {i \in DOMAIN wins : wins[i] = max_wins}
    IN  IF Cardinality(winners) = 1 /\ max_wins > draws
        THEN CHOOSE i \in winners : TRUE
        ELSE None

RECURSIVE _sum_of(_, _)
_sum_of(values, key) ==
    IF values = <<>> THEN 0
    ELSE Head(values)[key] + _sum_of(Tail(values), key)

\* sum(values) / len(values) if values else 0.0, as the pair <<sum, len>>
_average(values, key) == <<_sum_of(values, key), Len(values)>>

MetricKeys ==
    {"memory_coverage", "threads_spawned", "instructions_executed",
     "memory_writes"}

\* The end of the rounds loop and the BattleResult that is returned.
BattleReturn ==
    /\ battle.pc = "rounds"
    /\ ~(battle.round < battle.num_rounds)
    /\ battle' =
          [pc |-> "done", min_distance |-> battle.min_distance,
           num_rounds |-> battle.num_rounds,
           outcomes |-> battle.outcomes,
           warrior_ids |-> DOMAIN battle.wins,
           winner_id |-> _final_winner(battle.wins, battle.draws),
           cycles |-> battle.total_cycles \div battle.num_rounds,
           metrics |-> [i \in DOMAIN battle.all_metrics |->
                          [key \in MetricKeys |->
                              _average(battle.all_metrics[i], key)]]]
    /\ UNCHANGED <<mars_vars, gen, tour, elites, app_vars>>

(***************************************************************************)
(* BattleSpec: Battle.run called once on a list of warriors, by a Battle   *)
(* with any min_distance and num_rounds.  Gambler wins, loses or draws     *)
(* against itself according to where the two copies are placed.            *)
(***************************************************************************)
Gambler == Warrior(<<Instruction("MOV", "I", "DIRECT", 2, "DIRECT", 1)>>, 0)

BattleLists ==
    {<<Gambler, Gambler>>, <<Looper, Looper>>, <<Imp, Suicide>>,
     <<TooLong, Looper>>, <<Gambler, Looper, Suicide>>, <<Imp>>}

BattleCall ==
    /\ battle.pc = "idle"
    /\ \E warriors_list \in BattleLists :
          battle' = _battle_run(battle, warriors_list)
    /\ UNCHANGED <<mars_vars, gen, tour, elites, app_vars>>

BattleInit ==
    /\ MarsInit
    /\ max_processes = MaxProcBound
    /\ gen = NoCall
    /\ battle \in {Battle(d, n) : d \in 0 .. MaxMinDistance, n \in 1 .. MaxRounds}
    /\ tour = NoCall
    /\ elites = NoCall
    /\ desc = NoCall
    /\ fit = NoCall
    /\ drq = NoCall
    /\ llm = NoCall

BattleNext ==
    \/ BattleCall
    \/ RoundBegin
    \/ GenSample
    \/ GenReturn
    \/ RoundLoad
    \/ RoundRun
    \/ RunStep
    \/ RunReturn
    \/ RoundEnd
    \/ BattleReturn

BattleSpec == BattleInit /\ [][BattleNext]_vars

(***************************************************************************)
(* C15.  RoundsWon(i) and RoundsDrawn count the rounds by what mars.run()  *)
(* returned in them.                                                       *)
(***************************************************************************)
RoundsWon(i) ==
    Cardinality({k \in 1 .. Len(battle.outcomes) : battle.outcomes[k] = i})

RoundsDrawn ==
    Cardinality({k \in 1 .. Len(battle.outcomes) : battle.outcomes[k] = None})

SoleLeader(i) ==
    \A j \in battle.warrior_ids \ {i} : RoundsWon(j) < RoundsWon(i)

_tournament_frame(warriors_list, rounds_per_match) ==
    [pc |-> "pairs", warriors |-> warriors_list,
     rounds_per_match |-> rounds_per_match, original_rounds |-> 0,
     i |-> 0, j |-> 1,
     stats |-> [k \in _ids(warriors_list) |->
                  [wins |-> 0, losses |-> 0, draws |-> 0, points |-> 0]],
     met |-> <<>>]

\* for i in range(n): for j in range(i + 1, n): a pair is left to play
_pair_left(t) == t.j < Len(t.warriors)

\* The pair that follows (i, j) in the two nested loops; an i whose inner
\* range is empty ends them.
_next_pair(i, j, n) ==
    IF j + 1 < n THEN <<i, j + 1>> ELSE <<i + 1, i + 2>>

\* Mutant of _update_stats: a draw is credited to the first warrior only.
_update_stats_draw_once(stats, i, j, winner_id) ==
    IF winner_id = 0
    THEN [stats EXCEPT ![i].wins = @ + 1, ![j].losses = @ + 1,
                       ![i].points = @ + 3]
    ELSE IF winner_id = 1
    THEN [stats EXCEPT ![j].wins = @ + 1, ![i].losses = @ + 1,
                       ![j].points = @ + 3]
    ELSE [stats EXCEPT ![i].draws = @ + 1, ![i].points = @ + 1]

\* "Update stats"
_update_stats(stats, i, j, winner_id) ==
    IF winner_id = 0
    THEN [stats EXCEPT ![i].wins = @ + 1, ![j].losses = @ + 1,
                       ![i].points = @ + 3]
    ELSE IF winner_id = 1
    THEN [stats EXCEPT ![j].wins = @ + 1, ![i].losses = @ + 1,
                       ![j].points = @ + 3]
    ELSE [stats EXCEPT ![i].draws = @ + 1, ![j].draws = @ + 1,
                       ![i].points = @ + 1, ![j].points = @ + 1]

\* original_rounds = self.num_rounds; self.num_rounds = rounds_per_match;
\* result = self.run([warriors[i], warriors[j]]) is entered
MatchBegin ==
    /\ tour.pc = "pairs"
    /\ _pair_left(tour)
    /\ battle.pc = "idle"
    /\ tour' = [tour EXCEPT !.pc = "match",
                            !.original_rounds = battle.num_rounds]
    /\ battle' = _battle_run(
                     [battle EXCEPT !.num_rounds = tour.rounds_per_match],
                     <<tour.warriors[tour.i + 1], tour.warriors[tour.j + 1]>>)
    /\ UNCHANGED <<mars_vars, gen, elites, app_vars>>

\* self.run(...) has returned: self.num_rounds = original_rounds, the
\* stats update, and the step of the loops to the next pair
MatchEnd ==
    /\ tour.pc = "match"
    /\ battle.pc = "done"
    /\ battle' = Battle(battle.min_distance, tour.original_rounds)
    /\ tour' = [tour EXCEPT
                  !.pc = "pairs",
                  !.stats = _update_stats(@, tour.i, tour.j, battle.winner_id),
                  !.i = _next_pair(tour.i, tour.j, Len(tour.warriors))[1],
                  !.j = _next_pair(tour.i, tour.j, Len(tour.warriors))[2],
                  !.met = Append(@, <<tour.i, tour.j>>)]
    /\ UNCHANGED <<mars_vars, gen, elites, app_vars>>

\* return stats
TournamentReturn ==
    /\ tour.pc = "pairs"
    /\ ~_pair_left(tour)
    /\ tour' = [tour EXCEPT !.pc = "done"]
    /\ UNCHANGED <<mars_vars, gen, battle, elites, app_vars>>

(***************************************************************************)
(* TourSpec: run_tournament called once, on no warrior, one, two or three. *)
(***************************************************************************)
TournamentLists ==
    {<<>>, <<Imp>>, <<Looper, Looper>>, <<Gambler, Looper, Suicide>>,
     <<Gambler, Gambler, Looper>>}

TournamentCall ==
    /\ tour.pc = "idle"
    /\ \E warriors_list \in TournamentLists,
          rounds_per_match \in 1 .. MaxRounds :
          tour' = _tournament_frame(warriors_list, rounds_per_match)
    /\ UNCHANGED <<mars_vars, gen, battle, elites, app_vars>>

TourInit ==
    /\ MarsInit
    /\ max_processes = MaxProcBound
    /\ gen = NoCall
    /\ battle \in {Battle(d, 1) : d \in 0 .. MaxMinDistance}
    /\ tour = NoCall
    /\ elites = NoCall
    /\ desc = NoCall
    /\ fit = NoCall
    /\ drq = NoCall
    /\ llm = NoCall

TourNext ==
    \/ TournamentCall
    \/ MatchBegin
    \/ RoundBegin
    \/ GenSample
    \/ GenReturn
    \/ RoundLoad
    \/ RoundRun
    \/ RunStep
    \/ RunReturn
    \/ RoundEnd
    \/ BattleReturn
    \/ MatchEnd
    \/ TournamentReturn

TourSpec == TourInit /\ [][TourNext]_vars

(***************************************************************************)
(* C16.                                                                    *)
(***************************************************************************)
Entrants == _ids(tour.warriors)

Meetings(a, b) ==
    Cardinality({k \in 1 .. Len(tour.met) :
                    tour.met[k] = <<a, b>> \/ tour.met[k] = <<b, a>>})

RECURSIVE Total(_, _)
Total(field, S) ==
    IF S = {} THEN 0
    ELSE LET k == CHOOSE x \in S : TRUE
         IN  tour.stats[k][field] + Total(field, S \ {k})

\* C16: when run_tournament on n warriors has returned, every unordered
\* pair has met exactly once; every warrior has wins + draws + losses =
\* n - 1 and points = 3 * wins + draws; and the wins of all warriors
\* together equal their losses together.
C16_RoundRobin ==
    tour.pc = "done" =>
        /\ \A a, b \in Entrants : a # b => Meetings(a, b) = 1
        /\ \A k \in Entrants :
              /\ tour.stats[k].wins + tour.stats[k].draws
                    + tour.stats[k].losses = Len(tour.warriors) - 1
              /\ tour.stats[k].points =
                    3 * tour.stats[k].wins + tour.stats[k].draws
        /\ Total("wins", Entrants) = Total("losses", Entrants)

\* A finished tournament of three with a drawn match and a won match.
C16_Witness ==
    /\ tour.pc = "done"
    /\ Len(tour.warriors) = 3
    /\ Len(tour.met) = 3
    /\ \E k \in Entrants : tour.stats[k].draws >= 1
    /\ \E k \in Entrants : tour.stats[k].wins >= 1 /\ tour.stats[k].losses >= 1

(***************************************************************************)
(* MAP-Elites (src/evolution/map_elites.py).  A metric value is a rational *)
(* number <<numerator, denominator>> with a positive denominator; a        *)
(* metrics dictionary is a function from metric names to such values.      *)
(* The arithmetic of get_cell_index is done exactly.                       *)
(***************************************************************************)
\* BehaviorDescriptor.__post_init__: the default axes
axes ==
    <<[name |-> "memory_coverage", min_val |-> 0, max_val |-> 1,
       num_bins |-> 10],
      [name |-> "threads_spawned", min_val |-> 0, max_val |-> 100,
       num_bins |-> 10]>>

\* Mutant of _bin_idx: the normalized value is scaled by num_bins.
_bin_idx_by_bins(axis, metrics) ==
    LET value == IF axis.name \in DOMAIN metrics THEN metrics[axis.name]
                 ELSE <<axis.min_val, 1>>
        n == value[1]
        d == value[2]
        span == axis.max_val - axis.min_val
        offset == IF n < axis.min_val * d THEN 0
                  ELSE IF n > axis.max_val * d THEN span * d
                  ELSE n - axis.min_val * d
    IN  IF axis.max_val > axis.min_val
        THEN Min((offset * axis.num_bins) \div (span * d),
                 axis.num_bins - 1)
        ELSE 0

\* One iteration of the loop of get_cell_index: clamp, normalize, bin.
_bin_idx(axis, metrics) ==
    LET value == IF axis.name \in DOMAIN metrics THEN metrics[axis.name]
                 ELSE <<axis.min_val, 1>>
        n == value[1]
        d == value[2]
        span == axis.max_val - axis.min_val
        \* (clamped value - min_val) * d
        offset == IF n < axis.min_val * d THEN 0
                  ELSE IF n > axis.max_val * d THEN span * d
                  ELSE n - axis.min_val * d
    IN  IF axis.max_val > axis.min_val
        THEN Min((offset * (axis.num_bins - 1)) \div (span * d),
                 axis.num_bins - 1)
        ELSE 0

\* get_cell_index of a descriptor with the given axes
_cell_index(descriptor_axes, metrics) ==
    [k \in 1 .. Len(descriptor_axes) |-> _bin_idx(descriptor_axes[k], metrics)]

\* get_cell_index of the descriptor with the default axes
get_cell_index(metrics) == _cell_index(axes, metrics)

\* Mutant of EliteCell: the metrics are not kept with the solution.
EliteCell_without_metrics(solution, fitness, metrics, generation) ==
    [solution |-> solution, fitness |-> fitness, metrics |-> <<>>,
     generation |-> generation]

EliteCell(solution, fitness, metrics, generation) ==
    [solution |-> solution, fitness |-> fitness, metrics |-> metrics,
     generation |-> generation]

\* No _try_add call has been made yet.
NoAdd ==
    [solution |-> "", fitness |-> 0, metrics |-> <<>>, returned |-> FALSE,
     repeated |-> FALSE]

\* What a step call found when it was entered: the two counters and the
\* occupied cells.  NoEntry outside step.
NoEntry == [total_evaluations |-> 0, archive_updates |-> 0, occupied |-> {}]

Entry(e) ==
    [total_evaluations |-> e.stats.total_evaluations,
     archive_updates |-> e.stats.archive_updates,
     occupied |-> DOMAIN e.archive]

\* Mutant of _count_update: every offspring is counted.
_count_every(updates, added) == updates + 1

\* if self._try_add(offspring, fitness, metrics): updates += 1
_count_update(updates, added) == IF added THEN updates + 1 ELSE updates

\* MAPElites.__init__; keys is the insertion order of the archive dict,
\* added the record of the last _try_add call, entry what the running step
\* call found
MAPElites(initial_population_size, batch_size) ==
    [pc |-> "idle",
     initial_population_size |-> initial_population_size,
     batch_size |-> batch_size,
     archive |-> <<>>, keys |-> <<>>, generation |-> 0,
     stats |-> [total_evaluations |-> 0, archive_updates |-> 0,
                best_fitness |-> 0, archive_size |-> 0],
     remaining |-> 0, updates |-> 0, returned |-> None,
     added |-> NoAdd, parent |-> <<>>, entry |-> NoEntry]

\* Mutant of _better: any different fitness takes the cell.
_better_if_different(fitness, incumbent) == fitness # incumbent

\* Mutant of _better: an equal fitness takes the cell too.
_better_or_equal(fitness, incumbent) == fitness >= incumbent

\* `elif fitness > self.archive[cell_idx].fitness`
_better(fitness, incumbent) == fitness > incumbent

\* Mutant of _best_fitness: the statistic follows the last admission.
_best_fitness_latest(best_fitness, fitness) == fitness

\* if fitness > self.stats["best_fitness"]: self.stats["best_fitness"] = fitness
_best_fitness(best_fitness, fitness) ==
    IF fitness > best_fitness THEN fitness ELSE best_fitness

\* _try_add: the object after the call and the value returned.
_try_add(e, solution, fitness, metrics) ==
    LET cell_idx == get_cell_index(metrics)
        cell == EliteCell(solution, fitness, metrics, e.generation)
        counted == [e EXCEPT !.stats.total_evaluations = @ + 1]
    IN  IF cell_idx \notin DOMAIN e.archive
        THEN [returned |-> TRUE,
              e |-> [counted EXCEPT
                       !.archive = (cell_idx :> cell) @@ @,
                       !.keys = Append(@, cell_idx),
                       !.stats.archive_updates = @ + 1,
                       !.stats.archive_size =
                           Cardinality(DOMAIN e.archive \cup {cell_idx}),
                       !.stats.best_fitness = _best_fitness(@, fitness)]]
        ELSE IF _better(fitness, e.archive[cell_idx].fitness)
        THEN [returned |-> TRUE,
              e |-> [counted EXCEPT
                       !.archive[cell_idx] = cell,
                       !.stats.archive_updates = @ + 1,
                       !.stats.best_fitness = _best_fitness(@, fitness)]]
        ELSE [returned |-> FALSE, e |-> counted]

\* max(self.archive.values(), key=lambda e: e.fitness): the first cell, in
\* insertion order, of maximal fitness; None for an empty archive
get_best(e) ==
    IF e.keys = <<>> THEN None
    ELSE LET first == CHOOSE k \in 1 .. Len(e.keys) :
                        /\ \A j \in 1 .. Len(e.keys) :
                              e.archive[e.keys[j]].fitness
                                 <= e.archive[e.keys[k]].fitness
                        /\ \A j \in 1 .. (k - 1) :
                              e.archive[e.keys[j]].fitness
                                 < e.archive[e.keys[k]].fitness
         IN  e.archive[e.keys[first]]

(***************************************************************************)
(* The inputs: what generate_fn and mutate_fn return, and what evaluate_fn *)
(* returns for it.  Fitness is 0.0 or 1.0.  One of the sample metrics      *)
(* falls into cell (0, 0) and two into cell (9, 9), one of them by         *)
(* clamping.                                                               *)
(***************************************************************************)
Solutions == {"w1", "w2"}

FitnessValues == {0, 1}

Metrics(coverage, threads) ==
    [memory_coverage |-> <<coverage, CoreSize>>,
     threads_spawned |-> <<threads, 1>>]

MetricSamples == {<<>>, Metrics(CoreSize, 100), Metrics(CoreSize + 1, 200)}

\* A call of _try_add by initialize or step, or directly: added keeps the
\* arguments, the value returned, and whether the arguments are those of
\* the call before.
_admit(e, solution, fitness, metrics) ==
    LET r == _try_add(e, solution, fitness, metrics)
    IN  [r.e EXCEPT
           !.added = [solution |-> solution, fitness |-> fitness,
                      metrics |-> metrics, returned |-> r.returned,
                      repeated |-> /\ e.stats.total_evaluations > 0
                                   /\ e.added.solution = solution
                                   /\ e.added.fitness = fitness
                                   /\ e.added.metrics = metrics]]

TryAdd ==
    /\ elites.pc = "idle"
    /\ elites.stats.total_evaluations < MaxEvaluations
    /\ \E solution \in Solutions, fitness \in FitnessValues,
          metrics \in MetricSamples :
          elites' = _admit(elites, solution, fitness, metrics)
    /\ UNCHANGED <<mars_vars, gen, battle, tour, app_vars>>

\* initialize(generate_fn, evaluate_fn) is entered
InitializeCall ==
    /\ elites.pc = "idle"
    /\ elites.stats.total_evaluations + elites.initial_population_size
          <= MaxEvaluations
    /\ elites' = [elites EXCEPT !.pc = "initialize",
                                !.remaining = elites.initial_population_size]
    /\ UNCHANGED <<mars_vars, gen, battle, tour, app_vars>>

\* One iteration of the loop of initialize
InitializeIter ==
    /\ elites.pc = "initialize"
    /\ elites.remaining > 0
    /\ \E solution \in Solutions, fitness \in FitnessValues,
          metrics \in MetricSamples :
          elites' = [_admit(elites, solution, fitness, metrics)
                        EXCEPT !.remaining = @ - 1]
    /\ UNCHANGED <<mars_vars, gen, battle, tour, app_vars>>

InitializeReturn ==
    /\ elites.pc = "initialize"
    /\ elites.remaining = 0
    /\ elites' = [elites EXCEPT !.pc = "idle", !.returned = None]
    /\ UNCHANGED <<mars_vars, gen, battle, tour, app_vars>>

\* step(mutate_fn, evaluate_fn) is entered: self.generation += 1; updates = 0
StepCall ==
    /\ elites.pc = "idle"
    /\ elites.generation < MaxGenerations
    /\ elites.stats.total_evaluations + elites.batch_size <= MaxEvaluations
    /\ elites' = [elites EXCEPT !.pc = "step",
                                !.generation = @ + 1,
                                !.updates = 0,
                                !.remaining = elites.batch_size,
                                !.entry = Entry(elites)]
    /\ UNCHANGED <<mars_vars, gen, battle, tour, app_vars>>

\* One iteration of the loop of step: sample_elite() (None for an empty
\* archive, and then `continue`), mutate, evaluate, _try_add
StepIter ==
    /\ elites.pc = "step"
    /\ elites.remaining > 0
    /\ IF elites.keys = <<>>
       THEN elites' = [elites EXCEPT !.remaining = @ - 1]
       ELSE \E parent \in DOMAIN elites.archive, offspring \in Solutions,
               fitness \in FitnessValues, metrics \in MetricSamples :
               LET after == _admit(elites, offspring, fitness, metrics)
               IN  elites' = [after EXCEPT
                                !.remaining = @ - 1,
                                !.parent = parent,
                                !.updates =
                                    _count_update(@, after.added.returned)]
    /\ UNCHANGED <<mars_vars, gen, battle, tour, app_vars>>

\* return updates
StepReturn ==
    /\ elites.pc = "step"
    /\ elites.remaining = 0
    /\ elites' = [elites EXCEPT !.pc = "idle", !.returned = elites.updates,
                                !.entry = NoEntry]
    /\ UNCHANGED <<mars_vars, gen, battle, tour, app_vars>>

(***************************************************************************)
(* ElitesSpec: a MAPElites object with any initial_population_size and     *)
(* batch_size, on which initialize, step and _try_add are called in any    *)
(* order.                                                                  *)
(***************************************************************************)
LoopSizes == {0, 2}

ElitesInit ==
    /\ MarsInit
    /\ max_processes = MaxProcBound
    /\ gen = NoCall
    /\ battle = NoCall
    /\ tour = NoCall
    /\ elites \in {MAPElites(p, b) : p \in LoopSizes, b \in LoopSizes}
    /\ desc = NoCall
    /\ fit = NoCall
    /\ drq = NoCall
    /\ llm = NoCall

ElitesNext ==
    \/ TryAdd
    \/ InitializeCall
    \/ InitializeIter
    \/ InitializeReturn
    \/ StepCall
    \/ StepIter
    \/ StepReturn

ElitesSpec == ElitesInit /\ [][ElitesNext]_vars

(***************************************************************************)
(* C17 - C20.  Admitted is a step in which _try_add was called; its        *)
(* candidate is the cell the call would store.                             *)
(***************************************************************************)
Archive == elites.archive

Occupied == DOMAIN elites.archive

\* C17: for every key present in the archive, get_cell_index applied to
\* the metrics stored in that cell yields that same key, in every state
\* reached by initialize, step and _try_add calls.
C17_KeysMatchMetrics ==
    \A key \in Occupied : get_cell_index(Archive[key].metrics) = key

\* Two occupied cells, one of them refilled by a better candidate with
\* other metrics of the same cell.
C17_Witness ==
    /\ Cardinality(Occupied) = 2
    /\ elites.stats.archive_updates = 3
    /\ \E key \in Occupied :
          /\ Archive[key].metrics = Metrics(CoreSize + 1, 200)
          /\ key = <<9, 9>>
    /\ \E key \in Occupied : Archive[key].metrics = <<>>

Admitted ==
    elites'.stats.total_evaluations = elites.stats.total_evaluations + 1

IsCandidate(cell, call) ==
    /\ cell.solution = call.solution
    /\ cell.fitness = call.fitness
    /\ cell.metrics = call.metrics

C18_Step ==
    IF Admitted
    THEN /\ Occupied \subseteq DOMAIN elites'.archive
         /\ \A key \in Occupied :
               /\ elites'.archive[key].fitness >= Archive[key].fitness
               /\ elites'.archive[key] # Archive[key] =>
                     /\ IsCandidate(elites'.archive[key], elites'.added)
                     /\ elites'.added.fitness > Archive[key].fitness
         /\ \A key \in DOMAIN elites'.archive \ Occupied :
               IsCandidate(elites'.archive[key], elites'.added)
         /\ elites'.added.returned <=> elites'.archive # Archive
    ELSE elites'.archive = Archive

\* C18: across any sequence of _try_add calls no occupied key is lost and
\* the fitness stored in an occupied cell never decreases: a cell's content
\* is replaced only by a candidate of strictly greater fitness (one of
\* equal fitness leaves the incumbent), and _try_add returns True exactly
\* when it filled or replaced a cell.  Nothing else changes the archive.
C18_ArchiveMonotone == [][C18_Step]_vars

\* The last candidate had the incumbent's fitness and another solution,
\* and was turned down; an earlier one had replaced a cell.
C18_Witness ==
    /\ elites.stats.total_evaluations = 3
    /\ elites.stats.archive_updates = 2
    /\ Cardinality(Occupied) = 1
    /\ ~elites.added.returned
    /\ \E key \in Occupied :
          /\ Archive[key].fitness = elites.added.fitness
          /\ Archive[key].solution # elites.added.solution
          /\ key = get_cell_index(elites.added.metrics)

C19_Step ==
    (Admitted /\ elites'.added.repeated) =>
        /\ ~elites'.added.returned
        /\ elites'.archive = Archive
        /\ elites'.keys = elites.keys
        /\ elites'.stats.archive_updates = elites.stats.archive_updates
        /\ elites'.stats.archive_size = elites.stats.archive_size
        /\ elites'.stats.best_fitness = elites.stats.best_fitness

\* C19: a _try_add call with the same (solution, fitness, metrics) as the
\* _try_add call before it returns False and leaves the archive mapping,
\* archive_updates, archive_size and best_fitness unchanged.
C19_SecondAddRejected == [][C19_Step]_vars

\* The repeated call follows one that was admitted.
C19_Witness ==
    /\ elites.added.repeated
    /\ ~elites.added.returned
    /\ elites.stats.total_evaluations = 2
    /\ elites.stats.archive_updates = 1
    /\ \E key \in Occupied : IsCandidate(Archive[key], elites.added)

C20_Step == elites'.stats.best_fitness >= elites.stats.best_fitness

C20_BestIsBest ==
    Occupied # {} =>
        /\ get_best(elites) \in {Archive[key] : key \in Occupied}
        /\ \A key \in Occupied :
              Archive[key].fitness <= get_best(elites).fitness
        /\ elites.stats.best_fitness = get_best(elites).fitness

\* C20: stats["best_fitness"] never decreases across initialize and step
\* calls, and whenever the archive is non-empty (fitness values in [0, 1])
\* it equals the fitness of the elite get_best() returns, which is a
\* stored elite of maximal fitness.
C20_BestFitness ==
    /\ [][C20_Step]_vars
    /\ []C20_BestIsBest

\* After initialize and a step: the best elite was admitted second, into
\* another cell than the first one.
C20_Witness ==
    /\ elites.pc = "idle"
    /\ elites.generation >= 1
    /\ Len(elites.keys) = 2
    /\ Archive[elites.keys[1]].fitness = 0
    /\ Archive[elites.keys[2]].fitness = 1
    /\ elites.stats.best_fitness = 1
    /\ get_best(elites) = Archive[elites.keys[2]]

(***************************************************************************)
(* BehaviorDescriptor.get_cell_index called on descriptors with other axes *)
(* than the default ones.  The frame desc keeps the axes of the descriptor *)
(* and the last two calls, each with its metrics and the tuple returned.   *)
(***************************************************************************)
MaxBins == 3

Axis(name, min_val, max_val, num_bins) ==
    [name |-> name, min_val |-> min_val, max_val |-> max_val,
     num_bins |-> num_bins]

\* __post_init__: `if not self.axes` installs the default axes
BehaviorDescriptor(axes_list) ==
    [pc |-> "idle", axes |-> IF axes_list = <<>> THEN axes ELSE axes_list,
     calls |-> <<>>]

AxesSamples ==
    {<<>>,
     <<Axis("memory_coverage", 0, 1, 1)>>,
     <<Axis("memory_coverage", 0, 1, MaxBins)>>,
     <<Axis("threads_spawned", 0 - 1, 2, MaxBins + 1)>>,
     <<Axis("threads_spawned", 3, 10, MaxBins)>>,
     <<Axis("threads_spawned", 2, 2, MaxBins)>>}

Numerators == (0 - 1) .. 4 \cup {9, 10, 11, 100}

Denominators == {1, 2, 3}

\* The metrics dictionaries of the calls: no metric, one, or both.
MetricDicts ==
    {<<>>}
      \cup {[memory_coverage |-> <<n, d>>] :
               n \in Numerators, d \in Denominators}
      \cup {[threads_spawned |-> <<n, d>>] :
               n \in Numerators, d \in Denominators}
      \cup {[memory_coverage |-> <<n, 3>>, threads_spawned |-> <<t, 1>>] :
               n \in {1, 3}, t \in {0, 100}}

\* descriptor.get_cell_index(metrics)
GetCellIndex ==
    /\ \E metrics \in MetricDicts :
          desc' = [desc EXCEPT
                     !.pc = "done",
                     !.calls = (IF @ = <<>> THEN <<>> ELSE <<@[Len(@)]>>)
                               \o <<[metrics |-> metrics,
                                     indices |-> _cell_index(desc.axes,
                                                             metrics)]>>]
    /\ UNCHANGED <<mars_vars, gen, battle, tour, elites, fit, drq, llm>>

ProjInit ==
    /\ MarsInit
    /\ gen = NoCall
    /\ battle = NoCall
    /\ tour = NoCall
    /\ elites = NoCall
    /\ desc \in {BehaviorDescriptor(axes_list) : axes_list \in AxesSamples}
    /\ fit = NoCall
    /\ drq = NoCall
    /\ llm = NoCall

ProjNext == GetCellIndex

ProjSpec == ProjInit /\ [][ProjNext]_vars

(***************************************************************************)
(* C21.  ValueOf is the metric value an axis sees (min when the metric is  *)
(* missing) and Clamped its clamp into [min, max], both as rationals       *)
(* <<numerator, denominator>>.                                             *)
(***************************************************************************)
ValueOf(axis, metrics) ==
    IF axis.name \in DOMAIN metrics THEN metrics[axis.name]
    ELSE <<axis.min_val, 1>>

Clamped(axis, v) ==
    IF v[1] < axis.min_val * v[2] THEN <<axis.min_val, 1>>
    ELSE IF v[1] > axis.max_val * v[2] THEN <<axis.max_val, 1>>
    ELSE v

\* r = floor((c - min) / (max - min) * (n - 1)) for the rational c
IsFloorBin(axis, c, r) ==
    LET scaled == (c[1] - axis.min_val * c[2]) * (axis.num_bins - 1)
        unit == (axis.max_val - axis.min_val) * c[2]
    IN  /\ r * unit <= scaled
        /\ scaled < (r + 1) * unit

ProperAxes == {k \in 1 .. Len(desc.axes) :
                 /\ desc.axes[k].max_val > desc.axes[k].min_val
                 /\ desc.axes[k].num_bins >= 1}

FitnessConfig(battles_per_opponent) ==
    [battles_per_opponent |-> battles_per_opponent,
     win_score |-> 3, draw_score |-> 1, loss_score |-> 0]

\* FitnessEvaluator.__init__
FitnessEvaluator(config) ==
    [pc |-> "idle", config |-> config, total_evaluations |-> 0]

\* Mutant of _score: a match the opponent wins scores as a draw.
_score_loss_as_draw(config, winner_id) ==
    IF winner_id = 0 THEN config.win_score ELSE config.draw_score

\* "Scoring": what one match adds to total_score
_score(config, winner_id) ==
    IF winner_id = 0 THEN config.win_score
    ELSE IF winner_id = None THEN config.draw_score
    ELSE config.loss_score

\* A rational with denominator 0 stands for the 0.0 of an empty average.
_rat_add(x, y) ==
    IF x[2] = 0 THEN y
    ELSE IF y[2] = 0 THEN x
    ELSE <<x[1] * y[2] + y[1] * x[2], x[2] * y[2]>>

RECURSIVE _rat_sum(_, _)
_rat_sum(all_metrics, key) ==
    IF all_metrics = <<>> THEN <<0, 1>>
    ELSE _rat_add(Head(all_metrics)[key], _rat_sum(Tail(all_metrics), key))

\* "Average behavioral metrics"
_avg_metrics(all_metrics) ==
    IF all_metrics = <<>> THEN <<>>
    ELSE [key \in DOMAIN all_metrics[1] |->
            <<_rat_sum(all_metrics, key)[1],
              _rat_sum(all_metrics, key)[2] * Len(all_metrics)>>]

\* evaluate up to the loop: `if not opponents: return 0.0, {}`, else
\* total_evaluations += 1 and the Battle is built
_evaluate(f, warrior, opponents) ==
    IF opponents = <<>>
    THEN [f EXCEPT !.pc = "done"] @@
         [warrior |-> warrior, opponents |-> opponents, results |-> <<>>,
          fitness |-> <<0, 1>>, avg_metrics |-> <<>>]
    ELSE [f EXCEPT !.pc = "opponents", !.total_evaluations = @ + 1] @@
         [warrior |-> warrior, opponents |-> opponents, results |-> <<>>,
          total_score |-> 0, all_metrics |-> <<>>, k |-> 0]

FitWarriors == {Imp, Suicide, Looper, Gambler}

OpponentLists ==
    {<<>>, <<Suicide>>, <<Looper>>, <<Suicide, Suicide>>, <<Suicide, Looper>>,
     <<Gambler, Looper>>}

EvaluateCall ==
    /\ fit.pc = "idle"
    /\ \E warrior \in FitWarriors, opponents \in OpponentLists :
          /\ fit' = _evaluate(fit, warrior, opponents)
          /\ battle' = IF opponents = <<>> THEN battle
                       ELSE Battle(MaxMinDistance,
                                   fit.config.battles_per_opponent)
    /\ UNCHANGED <<mars_vars, gen, tour, elites, desc, drq, llm>>

\* result = battle.run([warrior, opponent]) is entered
EvaluateMatchBegin ==
    /\ fit.pc = "opponents"
    /\ fit.k < Len(fit.opponents)
    /\ battle.pc = "idle"
    /\ battle' = _battle_run(battle, <<fit.warrior, fit.opponents[fit.k + 1]>>)
    /\ fit' = [fit EXCEPT !.pc = "match"]
    /\ UNCHANGED <<mars_vars, gen, tour, elites, desc, drq, llm>>

\* battle.run has returned: "Scoring" and "Collect behavioral metrics"
EvaluateMatchEnd ==
    /\ fit.pc = "match"
    /\ battle.pc = "done"
    /\ fit' = [fit EXCEPT
                 !.pc = "opponents",
                 !.k = @ + 1,
                 !.total_score = @ + _score(fit.config, battle.winner_id),
                 !.all_metrics = IF 0 \in DOMAIN battle.metrics
                                 THEN Append(@, battle.metrics[0]) ELSE @,
                 !.results = Append(@, battle.winner_id)]
    /\ battle' = Battle(battle.min_distance, battle.num_rounds)
    /\ UNCHANGED <<mars_vars, gen, tour, elites, desc, drq, llm>>

\* "Normalize fitness", "Average behavioral metrics", return
EvaluateReturn ==
    /\ fit.pc = "opponents"
    /\ ~(fit.k < Len(fit.opponents))
    /\ LET max_score == fit.config.win_score * Len(fit.opponents)
       IN  fit' = [pc |-> "done", config |-> fit.config,
                   total_evaluations |-> fit.total_evaluations,
                   warrior |-> fit.warrior, opponents |-> fit.opponents,
                   results |-> fit.results,
                   fitness |-> IF max_score > 0
                               THEN <<fit.total_score, max_score>>
                               ELSE <<0, 1>>,
                   avg_metrics |-> _avg_metrics(fit.all_metrics)]
    /\ UNCHANGED <<mars_vars, gen, battle, tour, elites, desc, drq, llm>>

FitInit ==
    /\ MarsInit
    /\ max_processes = MaxProcBound
    /\ gen = NoCall
    /\ battle = NoCall
    /\ tour = NoCall
    /\ elites = NoCall
    /\ desc = NoCall
    /\ fit \in {FitnessEvaluator(FitnessConfig(n)) : n \in 1 .. MaxRounds}
    /\ drq = NoCall
    /\ llm = NoCall

FitNext ==
    \/ EvaluateCall
    \/ EvaluateMatchBegin
    \/ RoundBegin
    \/ GenSample
    \/ GenReturn
    \/ RoundLoad
    \/ RoundRun
    \/ RunStep
    \/ RunReturn
    \/ RoundEnd
    \/ BattleReturn
    \/ EvaluateMatchEnd
    \/ EvaluateReturn

FitSpec == FitInit /\ [][FitNext]_vars

(***************************************************************************)
(* C22.                                                                    *)
(***************************************************************************)
MatchesWon ==
    Cardinality({k \in 1 .. Len(fit.results) : fit.results[k] = 0})

MatchesDrawn ==
    Cardinality({k \in 1 .. Len(fit.results) : fit.results[k] = None})

\* C22: evaluate with n >= 1 opponents returns fitness = (3 * W + D) /
\* (3 * n), W and D being the numbers of matches whose Battle.run winner_id
\* is 0 and None: fitness lies in [0, 1] and is 1 only when every match is
\* won.  With no opponent it returns (0.0, {}) and no battle has been run.
C22_Fitness ==
    fit.pc = "done" =>
        IF fit.opponents = <<>>
        THEN /\ fit.fitness[1] = 0 /\ fit.fitness[2] > 0
             /\ fit.avg_metrics = <<>>
             /\ fit.results = <<>>
             /\ battle = NoCall
             /\ cycle = 0
        ELSE LET n == Len(fit.opponents)
             IN  /\ Len(fit.results) = n
                 /\ fit.fitness[2] > 0
                 /\ fit.fitness[1] * (3 * n) =
                       (3 * MatchesWon + MatchesDrawn) * fit.fitness[2]
                 /\ 0 <= fit.fitness[1]
                 /\ fit.fitness[1] <= fit.fitness[2]
                 /\ fit.fitness[1] = fit.fitness[2] => MatchesWon = n

\* Two opponents, each fought over two rounds: one match won and one drawn.
C22_Witness ==
    /\ fit.pc = "done"
    /\ fit.config.battles_per_opponent = 2
    /\ fit.results = <<0, None>>
    /\ fit.fitness = <<4, 6>>
    /\ fit.total_evaluations = 1

(***************************************************************************)
(* DigitalRedQueen (src/drq.py).  A warrior is known here by its name and  *)
(* by the round that made it champion (None for a seed and for a warrior   *)
(* that is no champion): the champion of round r is renamed                *)
(* "<name>_R<r>" or "Fallback_Round<r>" by _run_round.  drq holds the      *)
(* object (config, champions, round_results) and the frames of run and     *)
(* _run_round: round_num and evolved_champions, and opponents, gen and     *)
(* fitness_curve.  The MAPElites instance of the round is elites; its      *)
(* initialize and step calls are the loops of the MAP-Elites model, in     *)
(* which generate, mutate and evaluate return any sample.  vs_history is   *)
(* kept as the set of its keys.  Printing and the files written by         *)
(* _save_checkpoint and _save_final_results are not part of the state.     *)
(***************************************************************************)
PrintEvery == 10

MaxDrqRounds == 2

MaxHistory == 2

DRQConfig(num_rounds, generations_per_round, initial_population_size, batch_size, history_length, verbose) ==
    [num_rounds |-> num_rounds,
     generations_per_round |-> generations_per_round,
     initial_population_size |-> initial_population_size,
     batch_size |-> batch_size,
     history_length |-> history_length,
     verbose |-> verbose]

Champion(name, round) == [name |-> name, round |-> round]

\* DigitalRedQueen.__init__: `if initial_warriors` copies them, else the
\* classic imp and dwarf start the history
DigitalRedQueen(config, initial_warriors) ==
    [pc |-> "idle", config |-> config,
     champions |-> IF initial_warriors # <<>> THEN initial_warriors
                   ELSE <<Champion("Imp", None), Champion("Dwarf", None)>>,
     seeds |-> IF initial_warriors # <<>> THEN Len(initial_warriors) ELSE 2,
     round_results |-> <<>>,
     round_num |-> 0, evolved_champions |-> <<>>,
     opponents |-> <<>>, gen |-> 0, fitness_curve |-> <<>>, error |-> ""]

\* Mutant of _get_opponents: history_length = 0 is read as "no limit".
_get_opponents_unlimited(champions, history_length) ==
    IF history_length <= 0 THEN champions
    ELSE SubSeq(champions, Max(1, Len(champions) - history_length + 1),
                Len(champions))

_get_opponents(champions, history_length) ==
    IF history_length < 0 THEN champions
    ELSE IF history_length = 0
    THEN IF champions # <<>> THEN <<champions[Len(champions)]>> ELSE <<>>
    ELSE SubSeq(champions, Max(1, Len(champions) - history_length + 1),
                Len(champions))

\* best = map_elites.get_best(); if best: fitness_curve.append(best.fitness)
_track_best(fitness_curve, e) ==
    IF e.keys = <<>> THEN fitness_curve
    ELSE Append(fitness_curve, get_best(e).fitness)

\* The exception of the progress line of the evolution loop: best.fitness
\* is evaluated first, then formatted with the format specification
\* ".4f if best else 0:.4f"
_progress_line(e) ==
    IF e.keys = <<>> THEN "AttributeError" ELSE "ValueError"

\* "Get the champion"
_champion(e, round_num) ==
    IF e.keys = <<>>
    THEN [champion |-> Champion("Fallback", round_num),
          champion_fitness |-> 0, champion_metrics |-> <<>>]
    ELSE [champion |-> Champion(get_best(e).solution, round_num),
          champion_fitness |-> get_best(e).fitness,
          champion_metrics |-> get_best(e).metrics]

\* RoundResult(...) and the loop that fills vs_history
RoundResult(round_num, c, e, fitness_curve, opponents) ==
    [round_number |-> round_num, champion |-> c.champion,
     champion_fitness |-> c.champion_fitness,
     champion_metrics |-> c.champion_metrics,
     archive_size |-> Len(e.keys),
     total_evaluations |-> e.stats.total_evaluations,
     best_fitness_curve |-> fitness_curve,
     vs_history |-> {opponents[i].name : i \in 1 .. Len(opponents)}]

\* run() is entered
DrqRun ==
    /\ drq.pc = "idle"
    /\ drq' = [drq EXCEPT !.pc = "rounds", !.round_num = 0,
                          !.evolved_champions = <<>>]
    /\ UNCHANGED <<mars_vars, gen, battle, tour, elites, desc, fit, llm>>

\* _run_round(round_num) up to the call of map_elites.initialize
RunRound ==
    /\ drq.pc = "rounds"
    /\ drq.round_num < drq.config.num_rounds
    /\ drq' = [drq EXCEPT
                 !.pc = "initialize",
                 !.opponents = _get_opponents(drq.champions,
                                              drq.config.history_length),
                 !.fitness_curve = <<>>,
                 !.gen = 0]
    /\ elites' = [MAPElites(drq.config.initial_population_size,
                            drq.config.batch_size)
                    EXCEPT !.pc = "initialize",
                           !.remaining = drq.config.initial_population_size]
    /\ UNCHANGED <<mars_vars, gen, battle, tour, desc, fit, llm>>

\* initialize has returned
ArchiveInitialized ==
    /\ drq.pc = "initialize"
    /\ elites.pc = "idle"
    /\ drq' = [drq EXCEPT !.pc = "generations",
                          !.fitness_curve = _track_best(@, elites)]
    /\ UNCHANGED <<mars_vars, gen, battle, tour, elites, desc, fit, llm>>

\* The head of one iteration of the evolution loop: map_elites.step is
\* entered
Generation ==
    /\ drq.pc = "generations"
    /\ drq.gen < drq.config.generations_per_round
    /\ drq' = [drq EXCEPT !.pc = "step"]
    /\ elites' = [elites EXCEPT !.pc = "step",
                                !.generation = @ + 1,
                                !.updates = 0,
                                !.remaining = elites.batch_size,
                                !.entry = Entry(elites)]
    /\ UNCHANGED <<mars_vars, gen, battle, tour, desc, fit, llm>>

\* step has returned: the rest of the iteration
GenerationDone ==
    /\ drq.pc = "step"
    /\ elites.pc = "idle"
    /\ IF drq.config.verbose /\ (drq.gen + 1) % PrintEvery = 0
       THEN drq' = [drq EXCEPT !.pc = "raised",
                               !.fitness_curve = _track_best(@, elites),
                               !.error = _progress_line(elites)]
       ELSE drq' = [drq EXCEPT !.pc = "generations",
                               !.fitness_curve = _track_best(@, elites),
                               !.gen = @ + 1]
    /\ UNCHANGED <<mars_vars, gen, battle, tour, elites, desc, fit, llm>>

\* The end of _run_round and the rest of the iteration of run's loop
RoundDone ==
    /\ drq.pc = "generations"
    /\ ~(drq.gen < drq.config.generations_per_round)
    /\ LET result == RoundResult(drq.round_num,
                                 _champion(elites, drq.round_num), elites,
                                 drq.fitness_curve, drq.opponents)
       IN  drq' = [drq EXCEPT
                     !.pc = "rounds",
                     !.round_results = Append(@, result),
                     !.champions = Append(@, result.champion),
                     !.evolved_champions = Append(@, result.champion),
                     !.round_num = @ + 1]
    /\ elites' = NoCall
    /\ UNCHANGED <<mars_vars, gen, battle, tour, desc, fit, llm>>

\* return evolved_champions
DrqReturn ==
    /\ drq.pc = "rounds"
    /\ ~(drq.round_num < drq.config.num_rounds)
    /\ drq' = [drq EXCEPT !.pc = "done"]
    /\ UNCHANGED <<mars_vars, gen, battle, tour, elites, desc, fit, llm>>

(***************************************************************************)
(* DrqSpec: run called once on a DigitalRedQueen.  The configurations are *)
(* those of up to MaxDrqRounds rounds without generations, for every       *)
(* history_length; two rounds of one generation; rounds whose archive      *)
(* stays empty; and one round that reaches the progress line of generation *)
(* PrintEvery, with an empty batch or an empty initial population.         *)
(***************************************************************************)
DrqConfigs ==
    {DRQConfig(r, 0, 1, 1, h, FALSE) :
        r \in 0 .. MaxDrqRounds, h \in (0 - 1) .. MaxHistory}
      \cup {DRQConfig(2, 1, 1, 1, h, v) : h \in 0 .. 1, v \in BOOLEAN}
      \cup {DRQConfig(MaxDrqRounds, g, 0, 1, h, v) :
               g \in 0 .. 1, h \in {0 - 1, 0}, v \in BOOLEAN}
      \cup {DRQConfig(1, g, ps, 1 - ps, 0 - 1, v) :
               g \in {PrintEvery - 1, PrintEvery}, ps \in 0 .. 1,
               v \in BOOLEAN}

SeedLists == {<<>>, <<Champion("Mice", None)>>}

DrqInit ==
    /\ MarsInit
    /\ max_processes = MaxProcBound
    /\ gen = NoCall
    /\ battle = NoCall
    /\ tour = NoCall
    /\ elites = NoCall
    /\ desc = NoCall
    /\ fit = NoCall
    /\ drq \in {DigitalRedQueen(config, initial_warriors) :
                   config \in DrqConfigs, initial_warriors \in SeedLists}
    /\ llm = NoCall

DrqNext ==
    \/ DrqRun
    \/ RunRound
    \/ InitializeIter
    \/ InitializeReturn
    \/ ArchiveInitialized
    \/ Generation
    \/ StepIter
    \/ StepReturn
    \/ GenerationDone
    \/ RoundDone
    \/ DrqReturn

DrqSpec == DrqInit /\ [][DrqNext]_vars

(***************************************************************************)
(* C23.  InRound: a _run_round call is in progress.  Evaluated is a step   *)
(* in which the round's evaluate function was called (by initialize or by  *)
(* step); it uses the opponents of the frame.                              *)
(***************************************************************************)
InRound == drq.pc \in {"initialize", "generations", "step"}

Evaluated ==
    /\ elites.pc \in {"initialize", "step"}
    /\ elites'.pc = elites.pc
    /\ elites'.stats.total_evaluations = elites.stats.total_evaluations + 1

\* The opponents the claim prescribes for the history as it stands.
PrescribedOpponents ==
    LET h == drq.config.history_length
        n == Len(drq.champions)
        k == IF h < 0 THEN n ELSE IF h = 0 THEN 1 ELSE Min(h, n)
    IN  [i \in 1 .. k |-> drq.champions[n - k + i]]

C23_State ==
    /\ Len(drq.champions) = drq.seeds + drq.round_num
    /\ \A i \in 1 .. Len(drq.champions) :
          drq.champions[i].round =
             IF i <= drq.seeds THEN None ELSE i - drq.seeds - 1
    /\ InRound =>
          /\ drq.opponents = PrescribedOpponents
          /\ \A i \in 1 .. Len(drq.opponents) :
                \/ drq.opponents[i].round = None
                \/ drq.opponents[i].round < drq.round_num

C23_Step ==
    /\ Evaluated => (InRound /\ drq' = drq)
    /\ drq'.champions # drq.champions =>
          /\ drq.pc = "generations" /\ drq'.pc = "rounds"
          /\ Len(drq'.champions) = Len(drq.champions) + 1
          /\ SubSeq(drq'.champions, 1, Len(drq.champions)) = drq.champions
    /\ (drq.pc = "generations" /\ drq'.pc = "rounds") =>
          /\ drq'.round_num = drq.round_num + 1
          /\ drq'.champions # drq.champions

\* C23: the opponents used for every evaluation of round r are computed
\* before round r's champion exists and hold only seed champions and
\* champions of rounds < r: all of them when history_length < 0, the most
\* recent one when history_length = 0, the last k when history_length =
\* k > 0; and exactly one champion is appended to the history after each
\* round.
C23_OpponentsFromHistory ==
    /\ []C23_State
    /\ [][C23_Step]_vars

\* The second round with history_length = 0 and the two classic seeds: an
\* evaluation was made against the champion of the first round alone.
C23_Witness ==
    /\ drq.pc = "step"
    /\ drq.round_num = 1
    /\ drq.config.history_length = 0
    /\ drq.seeds = 2
    /\ drq.opponents = <<drq.champions[3]>>
    /\ drq.champions[3].round = 0
    /\ elites.stats.total_evaluations = 2

\* C24: run with num_rounds = R and generations_per_round = G completes
\* all R rounds without raising and returns exactly R champions (champion
\* history length = seeds + R, round_results length = R), for every G >= 0
\* and for verbose True or False.
C24_RunCompletes ==
    /\ drq.pc # "raised"
    /\ drq.pc = "done" =>
          /\ Len(drq.evolved_champions) = drq.config.num_rounds
          /\ Len(drq.champions) = drq.seeds + drq.config.num_rounds
          /\ Len(drq.round_results) = drq.config.num_rounds

\* C25: a round whose archive is empty when the generations finish does
\* not fail: every step() made no evaluation, the champion is the fallback
\* warrior with champion_fitness 0.0 and empty metrics, and it is appended
\* to the champion history.
C25_EmptyArchiveFallback ==
    /\ drq.pc = "raised" => elites.keys # <<>>
    /\ \A r \in 1 .. Len(drq.round_results) :
          drq.round_results[r].archive_size = 0 =>
             /\ drq.round_results[r].total_evaluations = 0
             /\ drq.round_results[r].champion = Champion("Fallback", r - 1)
             /\ drq.round_results[r].champion_fitness = 0
             /\ drq.round_results[r].champion_metrics = <<>>
             /\ drq.champions[drq.seeds + r] = drq.round_results[r].champion

(***************************************************************************)
(* WarriorGenerator (src/llm_interface/base.py) with _extract_code and     *)
(* parse_warrior (src/corewar/redcode.py).  What the LLM returns is a      *)
(* sequence of lines, each one of the kinds of LineKinds, or an exception. *)
(* llm holds the generator (config, generations, mutations,                *)
(* parse_failures) and, in last, the last call: its operation, the         *)
(* outcome of the LLM, the parents, the warrior returned, and raised, the  *)
(* exception that left the call ("" when it returned).                     *)
(***************************************************************************)
MaxWarriorLength == 15

MaxCalls == 1

\* The line of three backquotes that opens or closes a code block
Fence == "[fence]"

LineKinds ==
    {"MOV 0, 1", "JMP -1 ; loop", "DAT", "scan ADD.AB bomb, ptr", ";name X",
     "Here is the warrior:", Fence}

\* parse_instruction: the instruction of a line, as a list of 0 or 1
\* instructions.  A line needs an operand ("DAT" has none) and a first word
\* that is an opcode ("scan" is none); a comment is cut off.
parse_instruction(line) ==
    IF line = "MOV 0, 1"
    THEN <<Instruction("MOV", "I", "DIRECT", 0, "DIRECT", 1)>>
    ELSE IF line = "JMP -1 ; loop"
    THEN <<Instruction("JMP", "B", "DIRECT", 0 - 1, "DIRECT", 0)>>
    ELSE <<>>

RECURSIVE _instructions(_)
_instructions(lines) ==
    IF lines = <<>> THEN <<>>
    ELSE parse_instruction(Head(lines)) \o _instructions(Tail(lines))

\* parse_warrior(source)
parse_warrior(lines) == Warrior(_instructions(lines), 0)

\* "Check if line starts with a known opcode", or with ";"
_looks_like_redcode(line) ==
    line \in {"MOV 0, 1", "JMP -1 ; loop", "DAT", ";name X"}

\* _extract_code: the text between the first two fences, else the lines
\* that look like Redcode, else the whole response
_extract_code(response) ==
    LET fences == {i \in 1 .. Len(response) : response[i] = Fence}
        lines == SelectSeq(response, _looks_like_redcode)
    IN  IF Cardinality(fences) >= 2
        THEN LET first == CHOOSE i \in fences : \A j \in fences : i <= j
                 second == CHOOSE i \in fences \ {first} :
                              \A j \in fences \ {first} : i <= j
             IN  SubSeq(response, first + 1, second - 1)
        ELSE IF lines # <<>> THEN lines ELSE response

\* WARRIORS, parsed
Dwarf ==
    Warrior(<<Instruction("ADD", "AB", "IMMEDIATE", 4, "DIRECT", 3),
              Instruction("MOV", "I", "DIRECT", 2, "B_INDIRECT", 2),
              Instruction("JMP", "B", "DIRECT", 0 - 2, "DIRECT", 0),
              Dat00>>, 0)

Mice ==
    Warrior(<<Instruction("SPL", "B", "DIRECT", 0, "DIRECT", 0),
              Instruction("MOV", "I", "DIRECT", 12, "B_PREDEC", 15),
              Instruction("DJN", "B", "DIRECT", 0 - 1, "DIRECT", 0 - 3),
              Instruction("SPL", "B", "B_INDIRECT", 14, "DIRECT", 0),
              Instruction("ADD", "AB", "IMMEDIATE", 653, "DIRECT", 13),
              Instruction("JMZ", "B", "DIRECT", 0 - 5, "DIRECT", 0 - 7),
              Instruction("MOV", "I", "DIRECT", 10, "B_PREDEC", 11),
              Instruction("DJN", "B", "DIRECT", 0 - 1, "DIRECT", 0 - 3),
              Instruction("SPL", "B", "DIRECT", 2, "DIRECT", 0),
              Instruction("JMP", "B", "DIRECT", 0 - 9, "DIRECT", 0),
              Instruction("DAT", "F", "IMMEDIATE", 0, "IMMEDIATE", 833),
              Dat00, Dat00, Dat00, Dat00>>, 0)

Scanner ==
    Warrior(<<Instruction("MOV", "I", "B_INDIRECT", 0, "DIRECT", 0),
              Instruction("SNE", "I", "DIRECT", 0, "DIRECT", 0),
              Instruction("JMP", "B", "DIRECT", 0, "DIRECT", 0),
              Instruction("SUB", "AB", "IMMEDIATE", 5, "DIRECT", 0),
              Instruction("ADD", "AB", "IMMEDIATE", 1, "DIRECT", 0),
              Instruction("DJN", "B", "DIRECT", 0, "DIRECT", 0),
              Instruction("JMP", "B", "DIRECT", 0, "DIRECT", 0)>>, 0)

WARRIORS == {Imp, Dwarf, Mice, Scanner}

GenerationConfig(max_warrior_length) ==
    [max_warrior_length |-> max_warrior_length]

NoWarrior == Warrior(<<>>, 0)

NoLLMCall ==
    [op |-> "", outcome |-> <<>>, parents |-> <<>>, returned |-> NoWarrior,
     raised |-> "", failed |-> FALSE]

\* WarriorGenerator.__init__
WarriorGenerator(config) ==
    [pc |-> "idle", config |-> config, generations |-> 0, mutations |-> 0,
     parse_failures |-> 0, last |-> NoLLMCall]

\* The body of the try block: the exception it raises ("" for none) and
\* the warrior it returns
_try_llm(outcome) ==
    IF outcome.raises
    THEN [exception |-> "LLMError", warrior |-> NoWarrior]
    ELSE LET warrior == parse_warrior(_extract_code(outcome.lines))
         IN  IF warrior.instructions = <<>>
             THEN [exception |-> "ValueError", warrior |-> NoWarrior]
             ELSE [exception |-> "", warrior |-> warrior]

\* Mutant of _caught: only the errors of the LLM call are handled.
_caught_llm_errors(exception) == exception = "LLMError"

\* except Exception
_caught(exception) == exception # ""

ValueModulus == 8000

\* _mutate_fallback: a copy with one value of one instruction changed
_mutate_fallback(warrior, idx, field, delta) ==
    IF warrior.instructions = <<>> THEN Warrior(<<>>, warrior.start_offset)
    ELSE Warrior(
           [warrior.instructions EXCEPT
              ![idx] = IF field = "a_value"
                       THEN [@ EXCEPT !.a_value = (@ + delta) % ValueModulus]
                       ELSE [@ EXCEPT !.b_value = (@ + delta) % ValueModulus]],
           warrior.start_offset)

\* _crossover_fallback: first half of parent1, second half of parent2, cut
\* to max_warrior_length
_crossover_fallback(parent1, parent2, max_warrior_length) ==
    LET mid1 == Len(parent1.instructions) \div 2
        mid2 == Len(parent2.instructions) \div 2
        instructions ==
            SubSeq(parent1.instructions, 1, mid1)
              \o SubSeq(parent2.instructions, mid2 + 1,
                        Len(parent2.instructions))
    IN  Warrior(SubSeq(instructions, 1,
                       Min(Len(instructions), max_warrior_length)), 0)

\* The end of a call: what the try block returned, or the fallback of the
\* except clause with parse_failures += 1, or the exception that no clause
\* handles
_finish(g, op, outcome, parents, fallback) ==
    LET t == _try_llm(outcome)
    IN  IF t.exception = ""
        THEN [g EXCEPT !.last = [op |-> op, outcome |-> outcome,
                                 parents |-> parents, returned |-> t.warrior,
                                 raised |-> "", failed |-> FALSE]]
        ELSE IF _caught(t.exception)
        THEN [g EXCEPT !.parse_failures = @ + 1,
                       !.last = [op |-> op, outcome |-> outcome,
                                 parents |-> parents, returned |-> fallback,
                                 raised |-> "", failed |-> TRUE]]
        ELSE [g EXCEPT !.last = [op |-> op, outcome |-> outcome,
                                 parents |-> parents, returned |-> NoWarrior,
                                 raised |-> t.exception, failed |-> TRUE]]

Code(n) == [i \in 1 .. n |-> "MOV 0, 1"]

CodeLengths == {0, 1, MaxWarriorLength, MaxWarriorLength + 1}

Responses ==
    {<<>>, <<"Here is the warrior:">>, <<";name X", "DAT">>,
     <<"scan ADD.AB bomb, ptr">>}
      \cup {<<";name X">> \o Code(n) \o <<"Here is the warrior:">> :
               n \in CodeLengths}
      \cup {<<"Here is the warrior:", Fence>> \o Code(n)
                \o <<Fence, "JMP -1 ; loop">> : n \in CodeLengths}
      \cup {<<Fence>> \o Code(1)}

LLMOutcomes ==
    {[raises |-> TRUE, lines |-> <<>>]}
      \cup {[raises |-> FALSE, lines |-> response] : response \in Responses}

Parents ==
    {NoWarrior, Dwarf, Warrior(_instructions(Code(MaxWarriorLength + 1)), 0)}

\* generate_random()
GenerateRandom ==
    /\ llm.generations + llm.mutations < MaxCalls
    /\ \E outcome \in LLMOutcomes, template \in WARRIORS :
          llm' = _finish([llm EXCEPT !.generations = @ + 1],
                         "generate_random", outcome, <<>>, template)
    /\ UNCHANGED <<mars_vars, gen, battle, tour, elites, desc, fit, drq>>

\* mutate(warrior)
Mutate ==
    /\ llm.generations + llm.mutations < MaxCalls
    /\ \E outcome \in LLMOutcomes, warrior \in Parents :
          \E idx \in {Max(1, Len(warrior.instructions))},
             field \in {"a_value", "b_value"}, delta \in {0 - 5, 5} :
             llm' = _finish([llm EXCEPT !.mutations = @ + 1], "mutate",
                            outcome, <<warrior>>,
                            _mutate_fallback(warrior, idx, field, delta))
    /\ UNCHANGED <<mars_vars, gen, battle, tour, elites, desc, fit, drq>>

\* crossover(parent1, parent2)
Crossover ==
    /\ llm.parse_failures < MaxCalls
    /\ \E outcome \in LLMOutcomes, parent1 \in Parents, parent2 \in Parents :
          llm' = _finish(llm, "crossover", outcome, <<parent1, parent2>>,
                         _crossover_fallback(parent1, parent2,
                                             llm.config.max_warrior_length))
    /\ UNCHANGED <<mars_vars, gen, battle, tour, elites, desc, fit, drq>>

LlmInit ==
    /\ MarsInit
    /\ gen = NoCall
    /\ battle = NoCall
    /\ tour = NoCall
    /\ elites = NoCall
    /\ desc = NoCall
    /\ fit = NoCall
    /\ drq = NoCall
    /\ llm = WarriorGenerator(GenerationConfig(MaxWarriorLength))

LlmNext ==
    \/ GenerateRandom
    \/ Mutate
    \/ Crossover

LlmSpec == LlmInit /\ [][LlmNext]_vars

\* The warrior that the text of the last call parses to
Parsed(c) == parse_warrior(_extract_code(c.outcome.lines))

\* The LLM call raised, or its text gave a warrior without instructions
Failure(c) == c.outcome.raises \/ Parsed(c).instructions = <<>>

\* w is parent with at most one value of one instruction changed
IsMutateFallback(w, parent) ==
    /\ w.start_offset = parent.start_offset
    /\ Len(w.instructions) = Len(parent.instructions)
    /\ Cardinality({i \in 1 .. Len(w.instructions) :
                      w.instructions[i] # parent.instructions[i]}) <= 1
    /\ \A i \in 1 .. Len(w.instructions) :
          \/ [w.instructions[i] EXCEPT !.a_value = 0]
               = [parent.instructions[i] EXCEPT !.a_value = 0]
          \/ [w.instructions[i] EXCEPT !.b_value = 0]
               = [parent.instructions[i] EXCEPT !.b_value = 0]

IsFallback(c) ==
    IF c.op = "generate_random" THEN c.returned \in WARRIORS
    ELSE IsMutateFallback(c.returned, c.parents[1])

C26_Step ==
    (llm'.generations = llm.generations + 1 \/ llm'.mutations = llm.mutations + 1) =>
        LET c == llm'.last
        IN  /\ c.op \in {"generate_random", "mutate"}
            /\ c.raised = ""
            /\ Failure(c) =>
                  /\ llm'.parse_failures = llm.parse_failures + 1
                  /\ IsFallback(c)
            /\ ~Failure(c) =>
                  /\ llm'.parse_failures = llm.parse_failures
                  /\ c.returned = Parsed(c)
                  /\ c.returned.instructions # <<>>

\* C26: generate_random and mutate never let an error out: when the LLM
\* call raises or its output parses to a warrior with no instructions, the
\* call returns the fallback warrior and parse_failures grows by exactly 1;
\* when the parse succeeds parse_failures is unchanged and the parsed
\* warrior is returned.
C26_FallbackOnFailure == [][C26_Step]_vars

\* A mutate call whose LLM answered with text that holds no instruction
\* returned the changed copy of its parent, after an earlier failure
C26_Witness ==
    /\ llm.last.op = "mutate"
    /\ ~llm.last.outcome.raises
    /\ llm.last.outcome.lines # <<>>
    /\ llm.last.failed
    /\ llm.last.returned # llm.last.parents[1]
    /\ llm.parse_failures = 2

\* C27: every warrior returned by generate_random, mutate or crossover has
\* at least 1 and at most max_warrior_length instructions.
C27_LengthInRange ==
    (llm.last.op # "" /\ llm.last.raised = "") =>
        /\ Len(llm.last.returned.instructions) >= 1
        /\ Len(llm.last.returned.instructions) <= llm.config.max_warrior_length

(***************************************************************************)
(* C28 to C30: operand resolution.  last.fetched is the machine when the   *)
(* instruction was fetched, last.after_a the machine after the A-operand   *)
(* was resolved, last.resolved the machine after both were.                *)
(***************************************************************************)
Writing(mode) == mode \in {"A_PREDEC", "B_PREDEC", "A_POSTINC", "B_POSTINC"}

UsesA(mode) == mode \in {"A_INDIRECT", "A_PREDEC", "A_POSTINC"}

Field(mode, T) == IF UsesA(mode) THEN T.a_value ELSE T.b_value

WithField(mode, T, v) ==
    IF UsesA(mode) THEN [T EXCEPT !.a_value = v] ELSE [T EXCEPT !.b_value = v]

A0(base_pc, value) == (base_pc + value) % CoreSize

\* The field value the pointer is derived from
UsedField(c, base_pc, mode, value) ==
    LET f0 == Field(mode, c[A0(base_pc, value)])
    IN  IF mode \in {"A_PREDEC", "B_PREDEC"} THEN (f0 - 1) % CoreSize ELSE f0

StatedPtr(c, base_pc, mode, value) ==
    IF mode = "IMMEDIATE" THEN base_pc
    ELSE IF mode = "DIRECT" THEN A0(base_pc, value)
    ELSE (A0(base_pc, value) + UsedField(c, base_pc, mode, value)) % CoreSize

StatedVal(c, base_pc, mode, value) ==
    IF mode \in {"IMMEDIATE", "DIRECT"} THEN value
    ELSE UsedField(c, base_pc, mode, value)

\* The core after the resolution
StatedCore(c, base_pc, mode, value) ==
    LET a0 == A0(base_pc, value)
        f0 == Field(mode, c[a0])
    IN  IF mode \in {"A_PREDEC", "B_PREDEC"}
        THEN [c EXCEPT ![a0] = WithField(mode, c[a0], (f0 - 1) % CoreSize)]
        ELSE IF mode \in {"A_POSTINC", "B_POSTINC"}
        THEN [c EXCEPT ![a0] = WithField(mode, c[a0], (f0 + 1) % CoreSize)]
        ELSE c

AsStated(before, after, base_pc, mode, value, ptr, val) ==
    /\ ptr = StatedPtr(before.core, base_pc, mode, value)
    /\ val = StatedVal(before.core, base_pc, mode, value)
    /\ after.core = StatedCore(before.core, base_pc, mode, value)

\* The B-operand as the cell at pc holds it when it is resolved
OperandB(i) == i.after_a.core[i.pc]

\* C28: with a0 = (base_pc + value) mod M and T the cell at a0,
\* _resolve_address returns (base_pc, value) for Immediate, (a0, value) for
\* Direct, ((a0 + T.f) mod M, T.f) for A/B-Indirect; A/B-PreDec first
\* stores T.f := (T.f - 1) mod M at a0 and returns the pointer and value of
\* the decremented field; A/B-PostInc returns ((a0 + f0) mod M, f0) for the
\* field value f0 before the increment and stores T.f := (f0 + 1) mod M at
\* a0 before the opcode's main effect.
C28_ResolveAddress ==
    last.executed =>
        /\ AsStated(last.fetched, last.after_a, last.pc, last.instr.a_mode,
                    last.instr.a_value, last.a_addr, last.a_val)
        /\ AsStated(last.after_a, last.resolved, last.pc, OperandB(last).b_mode,
                    OperandB(last).b_value, last.b_addr, last.b_val)

\* A pre-decrement of a zero field wraps to M - 1, and a post-increment
\* returns the negative field value it found
C28_Witness ==
    /\ last.executed
    /\ last.instr.a_mode = "A_PREDEC"
    /\ last.a_val = CoreSize - 1
    /\ last.instr.b_mode = "B_POSTINC"
    /\ last.b_val = 0 - 2
    /\ last.resolved.core[A0(last.pc, last.instr.b_value)].b_value = CoreSize - 1

Tracked(before, after, w, base_pc, mode, value) ==
    LET a0 == A0(base_pc, value)
    IN  IF Writing(mode)
        THEN /\ after.ownership[a0] = w
             /\ \A a \in Addresses \ {a0} : after.ownership[a] = before.ownership[a]
             /\ after.warriors[w].memory_writes = before.warriors[w].memory_writes + 1
             /\ after.warriors[w].memory_accessed
                  = before.warriors[w].memory_accessed \cup {a0}
             /\ \A v \in DOMAIN before.warriors \ {w} :
                   after.warriors[v] = before.warriors[v]
        ELSE after = before

\* C29: each pre-decrement or post-increment resolution by warrior w sets
\* the ownership tag of the modified cell a0 to w, adds exactly 1 to w's
\* memory_writes and adds a0 to w's accessed set; a resolution in
\* Immediate, Direct, A-Indirect or B-Indirect mode changes no core cell,
\* no ownership tag and no counter.
C29_ResolutionTracked ==
    last.executed =>
        /\ Tracked(last.fetched, last.after_a, last.warrior_id, last.pc,
                   last.instr.a_mode, last.instr.a_value)
        /\ Tracked(last.after_a, last.resolved, last.warrior_id, last.pc,
                   OperandB(last).b_mode, OperandB(last).b_value)

\* A pre-decrement took over a cell of the other warrior, and the indirect
\* B-operand changed nothing
C29_Witness ==
    /\ last.executed
    /\ last.instr.a_mode = "B_PREDEC"
    /\ last.instr.b_mode = "A_INDIRECT"
    /\ last.fetched.ownership[A0(last.pc, last.instr.a_value)] = 1
    /\ last.after_a.ownership[A0(last.pc, last.instr.a_value)] = last.warrior_id
    /\ last.warrior_id = 0
    /\ last.resolved = last.after_a
    /\ last.resolved.warriors[0].memory_writes = 1

\* C30: within one instruction the A-operand is resolved before the
\* B-operand: the A-operand is resolved on the core as fetched, the
\* B-operand on the core as the A-operand's pre-decrement or
\* post-increment left it, and the source and destination the opcode uses
\* are the cells at a_ptr and b_ptr read after both resolutions.
C30_AThenB ==
    last.executed =>
        LET c0 == last.fetched.core
            cA == StatedCore(c0, last.pc, last.instr.a_mode, last.instr.a_value)
            cB == StatedCore(cA, last.pc, cA[last.pc].b_mode, cA[last.pc].b_value)
        IN  /\ last.a_addr = StatedPtr(c0, last.pc, last.instr.a_mode,
                                       last.instr.a_value)
            /\ last.b_addr = StatedPtr(cA, last.pc, cA[last.pc].b_mode,
                                       cA[last.pc].b_value)
            /\ last.b_val = StatedVal(cA, last.pc, cA[last.pc].b_mode,
                                      cA[last.pc].b_value)
            /\ last.resolved.core = cB
            /\ last.src = cB[last.a_addr]
            /\ last.dst = cB[last.b_addr]

\* The B-operand read the field the A-operand had just incremented, and
\* the source is the incremented cell
C30_Witness ==
    /\ last.executed
    /\ last.instr.a_mode = "A_POSTINC"
    /\ last.instr.b_mode = "A_INDIRECT"
    /\ last.a_val = 0
    /\ last.b_val = 1
    /\ last.src # last.fetched.core[last.a_addr]
    /\ last.src.a_value = 1

\* C31: the B-operand of the executing instruction is resolved with the
\* B-mode and B-value the instruction had when it was fetched, also when
\* the A-operand's pre-decrement or post-increment changed the
\* instruction's own cell.
C31_FetchedOperandB ==
    last.executed =>
        /\ last.b_addr = StatedPtr(last.after_a.core, last.pc,
                                   last.instr.b_mode, last.instr.b_value)
        /\ last.b_val = StatedVal(last.after_a.core, last.pc,
                                  last.instr.b_mode, last.instr.b_value)

(***************************************************************************)
(* C32 to C36: the opcodes.  Executed(ops) says that the last instruction  *)
(* executed had one of the opcodes; the core, the ownership tags and the   *)
(* queues of the state are then those the instruction left.               *)
(***************************************************************************)
Executed(ops) == last.executed /\ last.instr.opcode \in ops

\* The queue of the executing warrior is the one it had after the pc was
\* taken from it, with pcs appended
Enqueued(pcs) ==
    warriors[last.warrior_id].processes
      = last.fetched.warriors[last.warrior_id].processes \o pcs

\* Only the cell at b_ptr differs from the core the operand resolutions left
OnlyDestinationWritten ==
    /\ \A a \in Addresses \ {last.b_addr} :
          /\ core[a] = last.resolved.core[a]
          /\ ownership[a] = last.resolved.ownership[a]
    /\ ownership[last.b_addr] = last.warrior_id

MovStated(md, S, D) ==
    CASE md = "A" -> [D EXCEPT !.a_value = S.a_value]
      [] md = "B" -> [D EXCEPT !.b_value = S.b_value]
      [] md = "AB" -> [D EXCEPT !.b_value = S.a_value]
      [] md = "BA" -> [D EXCEPT !.a_value = S.b_value]
      [] md = "F" -> [D EXCEPT !.a_value = S.a_value, !.b_value = S.b_value]
      [] md = "X" -> [D EXCEPT !.a_value = S.b_value, !.b_value = S.a_value]
      [] md = "I" -> S

\* C32: MOV writes at b_ptr the destination snapshot D with only the
\* value fields the modifier selects replaced from the source snapshot S
\* (A: Da := Sa; B: Db := Sb; AB: Db := Sa; BA: Da := Sb; F: both; X: both,
\* crossed), and with modifier I the whole of S; the cell's owner becomes
\* the executing warrior and exactly next_pc is enqueued.
C32_Mov ==
    Executed({"MOV"}) =>
        /\ core[last.b_addr] = MovStated(last.instr.modifier, last.src, last.dst)
        /\ OnlyDestinationWritten
        /\ Enqueued(<<last.next_pc>>)

\* MOV.X of the data cell onto the instruction itself
C32_Witness ==
    /\ Executed({"MOV"})
    /\ last.instr.modifier = "X"
    /\ last.src = OpsData
    /\ last.dst = last.instr
    /\ core[last.b_addr] = [last.instr EXCEPT !.a_value = 0 - 2,
                                              !.b_value = CoreSize + 1]
    /\ ownership[last.b_addr] = last.warrior_id

\* The value fields of the destination that a modifier selects
SelectedFields(md, D) ==
    IF md \in {"A", "BA"} THEN {D.a_value}
    ELSE IF md \in {"B", "AB"} THEN {D.b_value}
    ELSE {D.a_value, D.b_value}

\* The last instruction stored a result at b_ptr
Stored(ops) ==
    /\ Executed(ops)
    /\ last.instr.opcode \in {"DIV", "MOD"} =>
          warriors[last.warrior_id].processes # last.fetched.warriors[last.warrior_id].processes

\* The fields stored by the operand resolutions of the last instruction
ResolutionFields ==
    (IF Writing(last.instr.a_mode)
     THEN {Field(last.instr.a_mode,
                 last.after_a.core[A0(last.pc, last.instr.a_value)])}
     ELSE {})
      \cup
    (IF Writing(OperandB(last).b_mode)
     THEN {Field(OperandB(last).b_mode,
                 last.resolved.core[A0(last.pc, OperandB(last).b_value)])}
     ELSE {})

\* C33: every A-value and B-value written into the core by ADD, SUB, MUL,
\* DIV, MOD, DJN or by a pre-decrement or post-increment lies in [0, M),
\* also for warriors loaded with negative operands or operands >= M.
C33_WrittenInRange ==
    /\ last.executed => ResolutionFields \subseteq Addresses
    /\ Stored({"ADD", "SUB", "MUL", "DIV", "MOD", "DJN"}) =>
          SelectedFields(last.instr.modifier, core[last.b_addr]) \subseteq Addresses

\* The instruction with both value fields reduced modulo the core size
Reduced(I) ==
    [I EXCEPT !.a_value = I.a_value % CoreSize, !.b_value = I.b_value % CoreSize]

Skip == (last.next_pc + 1) % CoreSize

\* C34: operand values are interpreted modulo M: the zero tests of JMZ,
\* JMN and DJN and the comparisons of SEQ/CMP, SNE and SLT give the result
\* they give for the fields reduced modulo M, so that two congruent field
\* values are treated as the same value.
C34_ModuloTests ==
    LET md == last.instr.modifier
        S == Reduced(last.src)
        D == Reduced(last.dst)
    IN  /\ Executed({"JMZ"}) =>
              Enqueued(<<IF _is_zero(md, D) THEN last.a_addr ELSE last.next_pc>>)
        /\ Executed({"JMN"}) =>
              Enqueued(<<IF ~_is_zero(md, D) THEN last.a_addr ELSE last.next_pc>>)
        /\ Executed({"DJN"}) =>
              Enqueued(<<IF ~_is_zero(md, Reduced(core[last.b_addr]))
                         THEN last.a_addr ELSE last.next_pc>>)
        /\ Executed({"SEQ", "CMP"}) =>
              Enqueued(<<IF _compare_equal(md, S, D) THEN Skip ELSE last.next_pc>>)
        /\ Executed({"SNE"}) =>
              Enqueued(<<IF ~_compare_equal(md, S, D) THEN Skip ELSE last.next_pc>>)
        /\ Executed({"SLT"}) =>
              Enqueued(<<IF _compare_less_than(md, S, D) THEN Skip ELSE last.next_pc>>)

DjnStated(md, D) ==
    IF md \in {"A", "BA"} THEN [D EXCEPT !.a_value = (D.a_value - 1) % CoreSize]
    ELSE IF md \in {"B", "AB"}
    THEN [D EXCEPT !.b_value = (D.b_value - 1) % CoreSize]
    ELSE [D EXCEPT !.a_value = (D.a_value - 1) % CoreSize,
                   !.b_value = (D.b_value - 1) % CoreSize]

\* C35: DJN decrements modulo M the field(s) of the cell at b_ptr that the
\* modifier selects (A, BA: A-field; B, AB: B-field; F, X, I: both),
\* writes the result back at b_ptr with the executing warrior as owner, and
\* then enqueues exactly one pc: a_ptr if a decremented selected field is
\* non-zero, otherwise next_pc.
C35_Djn ==
    Executed({"DJN"}) =>
        LET new_dst == DjnStated(last.instr.modifier, last.dst)
        IN  /\ core[last.b_addr] = new_dst
            /\ OnlyDestinationWritten
            /\ Enqueued(<<IF \E f \in SelectedFields(last.instr.modifier, new_dst) :
                                f # 0
                           THEN last.a_addr ELSE last.next_pc>>)

\* DJN.F on a cell whose A-field reaches 0 while its B-field does not jumps
C35_Witness ==
    /\ Executed({"DJN"})
    /\ last.instr.modifier = "F"
    /\ last.dst = SmallData
    /\ core[last.b_addr].a_value = 0
    /\ core[last.b_addr].b_value = 2
    /\ last.a_addr # last.next_pc
    /\ Enqueued(<<last.a_addr>>)

SltStated(md, S, D) ==
    CASE md = "A" -> S.a_value < D.a_value
      [] md = "B" -> S.b_value < D.b_value
      [] md = "AB" -> S.a_value < D.b_value
      [] md = "BA" -> S.b_value < D.a_value
      [] md \in {"F", "I"} -> S.a_value < D.a_value /\ S.b_value < D.b_value
      [] md = "X" -> S.a_value < D.b_value /\ S.b_value < D.a_value

\* C36: SLT pairs the fields as SEQ does (A: Sa < Da; B: Sb < Db; AB:
\* Sa < Db; BA: Sb < Da; F, I: Sa < Da and Sb < Db; X: Sa < Db and
\* Sb < Da) and enqueues (next_pc + 1) mod M iff every compared pair is
\* strictly less, and next_pc otherwise.
C36_Slt ==
    Executed({"SLT"}) =>
        Enqueued(<<IF SltStated(last.instr.modifier, last.src, last.dst)
                   THEN Skip ELSE last.next_pc>>)

(***************************************************************************)
(* C37: MAPElites.step.                                                    *)
(***************************************************************************)
\* An iteration of the loop of step on a non-empty archive
StepIterated == elites.pc = "step" /\ elites'.pc = "step" /\ elites.keys # <<>>

\* step returns, having been entered on a non-empty archive
StepReturned ==
    elites.pc = "step" /\ elites'.pc = "idle" /\ elites.entry.occupied # {}

C37_Step ==
    /\ StepIterated =>
          /\ elites'.parent \in Occupied
          /\ Admitted
          /\ elites'.remaining = elites.remaining - 1
    /\ StepReturned =>
          /\ elites.stats.total_evaluations
                = elites.entry.total_evaluations + elites.batch_size
          /\ elites'.returned
                = elites.stats.archive_updates - elites.entry.archive_updates
          /\ elites'.stats = elites.stats
          /\ elites'.archive = Archive

C37_Size == elites.pc # "idle" \/ elites.stats.archive_size = Cardinality(Occupied)

\* C37: step on a non-empty archive performs exactly batch_size
\* mutate-evaluate-admit sequences, each parent being sampled from the
\* archive as the earlier offspring of the batch left it, and returns the
\* number of admissions that succeeded, which is the increase of
\* stats["archive_updates"] during the call; stats["archive_size"] is the
\* number of occupied cells after every call.
C37_StepBatch == [][C37_Step]_vars /\ []C37_Size

\* A step of two offspring returned 1: the first offspring opened a cell,
\* the second had that new cell as parent and was turned down
C37_Witness ==
    /\ elites.pc = "idle"
    /\ elites.batch_size = 2
    /\ elites.returned = 1
    /\ elites.generation = 1
    /\ elites.stats.total_evaluations = 3
    /\ elites.stats.archive_updates = 2
    /\ Cardinality(Occupied) = 2
    /\ elites.parent = get_cell_index(elites.added.metrics)
    /\ ~elites.added.returned
    /\ Archive[elites.parent].generation = 1

(***************************************************************************)
(* C38 to C40: cycle accounting, death, and the step that returns False.   *)
(***************************************************************************)
RECURSIVE SumExecuted(_)
SumExecuted(S) ==
    IF S = {} THEN 0
    ELSE LET w == CHOOSE x \in S : TRUE
         IN  warriors[w].instructions_executed + SumExecuted(S \ {w})

C38_Sum == cycle = SumExecuted(Loaded)

C38_Step ==
    cycle' # cycle =>
        /\ cycle' = cycle + 1
        /\ \E w \in Loaded :
              /\ warriors[w].is_alive
              /\ warriors'[w].instructions_executed
                    = warriors[w].instructions_executed + 1
              /\ \A v \in Loaded \ {w} :
                    warriors'[v].instructions_executed
                      = warriors[v].instructions_executed

\* C38: in every reachable state the cycle counter equals the sum of
\* instructions_executed over all warriors: each step that returns True
\* executes exactly one instruction of exactly one living warrior and adds
\* exactly 1 to cycle.
C38_CycleAccounting == []C38_Sum /\ [][C38_Step]_vars

\* Three warriors, one of them dead after its first instruction, and the
\* others have run more often
C38_Witness ==
    /\ Cardinality(Loaded) = 3
    /\ cycle = 5
    /\ \E w \in Loaded :
          /\ ~warriors[w].is_alive
          /\ warriors[w].instructions_executed = 1
    /\ \E w \in Loaded : warriors[w].instructions_executed = 2

C39_Step ==
    \A w \in Loaded :
        /\ warriors'[w].processes # warriors[w].processes =>
              /\ cycle' = cycle + 1
              /\ last'.executed
              /\ last'.warrior_id = w
              /\ warriors[w].is_alive
        /\ ~warriors[w].is_alive =>
              /\ ~warriors'[w].is_alive
              /\ warriors'[w].processes = <<>>
              /\ warriors[w].processes = <<>>
              /\ warriors'[w].instructions_executed
                    = warriors[w].instructions_executed
              /\ warriors'[w].threads_spawned = warriors[w].threads_spawned
              /\ warriors'[w].memory_writes = warriors[w].memory_writes

\* C39: a warrior's queue is modified only during that warrior's own turn,
\* and once a warrior's is_alive flag is false it stays false, its queue
\* stays empty and its instructions_executed, threads_spawned and
\* memory_writes never change again for the rest of the battle.
C39_DeathIsPermanent == [][C39_Step]_vars

\* A warrior died on its first instruction, two others went on, and one
\* of them has since written over the dead warrior's cell
C39_Witness ==
    /\ Cardinality(Loaded) = 3
    /\ last.executed
    /\ \E w \in Loaded :
          /\ ~warriors[w].is_alive
          /\ warriors[w].instructions_executed = 1
          /\ last.warrior_id # w
          /\ \E k \in TurnsOf(w) : k + 3 <= Len(exec_log)
          /\ \E a \in warriors[w].memory_accessed : ownership[a] \notin {w, None}

\* The step() call that returns False, which ends run()
StepReturnedFalse == run_pc = "loop" /\ run_pc' = "done"

C40_Step ==
    StepReturnedFalse =>
        /\ cycle >= max_cycles \/ Cardinality(Alive(warriors)) < 2
        /\ UNCHANGED <<core, ownership, warriors, warrior_order, cycle,
                       current_warrior_idx>>

C40_Single ==
    (Cardinality(Loaded) = 1 /\ Len(warrior_order) = 1) =>
        /\ cycle = 0
        /\ \A w \in Loaded :
              /\ warriors[w].instructions_executed = 0
              /\ warriors[w].is_alive
              /\ run_pc = "done" => run_result = w

\* C40: a step() call that returns False (cycle >= max_cycles, or fewer
\* than two warriors alive) leaves core cells, ownership tags, all queues
\* and counters, the cycle counter and the turn index unchanged; a MARS
\* with exactly one loaded warrior therefore executes no instruction and
\* run() returns that warrior as winner at cycle 0.
C40_FalseStepChangesNothing == [][C40_Step]_vars /\ []C40_Single

\* run() of a MARS that holds only an imp has returned the imp
C40_Witness ==
    /\ run_pc = "done"
    /\ Loaded = {0}
    /\ warrior_order = <<0>>
    /\ run_result = 0
    /\ cycle = 0
    /\ \E a \in Addresses : core[a] = Imp.instructions[1] /\ Queue(0) = <<a>>

====
